---- MODULE Spec2Model ----
(***************************************************************************)
(* Model of the read-the-delta release pipeline:                           *)
(*   scripts/fetch_bls.mjs     (fetch + normalize one reference period)    *)
(*   scripts/write_update.mjs  (assemble the candidate release document)   *)
(*   scripts/review_update.mjs (publish gate + promotion)                  *)
(*   tools/fetch_bls_jobs.mjs  (stand-alone jobs artifact tool)            *)
(*   bootstrap_bls_history.mjs (one-time backfill)                         *)
(*                                                                         *)
(* Numbers are fixed-point integers in thousandths (3.6 is 3600), files    *)
(* are option values (<<>> = no file, <<content>> = file with content),    *)
(* periods are the integers yyyymm (2025-01 is 202501) and texts are       *)
(* sequences of one-character strings.                                     *)
(***************************************************************************)
EXTENDS Integers, Sequences, FiniteSets, TLC

(***************************************************************************)
(* Bounds of the model                                                     *)
(***************************************************************************)
\* number of reference periods the statistics source may newly publish
MaxNew == 1

\* program constants
TREND_LENGTH == 24
MonthsNeeded == 23
MaxNulls == 12
AvgWindow == 12
HistoryCap == 5

None == <<>>
Some(v) == <<v>>
IsSome(o) == o # <<>>
Val(o) == o[1]

RECURSIVE Pow10(_)
Pow10(n) == IF n = 0 THEN 1 ELSE 10 * Pow10(n - 1)

\* fixed-point unit: thousandths
FP == Pow10(3)

\* Math.round(x * 10^prec) / 10^prec on a value in thousandths; Math.round
\* is floor(x + 0.5)
RoundTo(v, prec) ==
    ((2 * v * Pow10(prec) + FP) \div (2 * FP)) * (FP \div Pow10(prec))

(***************************************************************************)
(* Metric keys and their definitions                                       *)
(***************************************************************************)
Keys == {"payrolls", "unemployment_rate"}

\* the definitions of the jobs dataset; scale is scaleNum / scaleDen
METRIC_DEFINITIONS ==
    [payrolls                    |-> [unit |-> "thousands", scaleNum |-> 1, scaleDen |-> 1,
                                      precision |-> 0],
     unemployment_rate           |-> [unit |-> "percent", scaleNum |-> 1, scaleDen |-> 1,
                                      precision |-> 1],
     labor_force_participation   |-> [unit |-> "percent", scaleNum |-> 1, scaleDen |-> 1,
                                      precision |-> 1],
     average_hourly_earnings     |-> [unit |-> "dollars", scaleNum |-> 1, scaleDen |-> 1,
                                      precision |-> 2],
     average_hourly_earnings_yoy |-> [unit |-> "percent", scaleNum |-> 1, scaleDen |-> 10,
                                      precision |-> 1]]

\* the raw index series of the inflation dataset; a series id is identified
\* with its index key
INFLATION_RAW_SERIES == {"cpi_all_items", "cpi_core"}

INFLATION_DERIVED_METRICS ==
    [cpi_yoy  |-> [source_index |-> "cpi_all_items", computation |-> "yoy",
                   unit |-> "percent", precision |-> 1],
     cpi_mom  |-> [source_index |-> "cpi_all_items", computation |-> "mom",
                   unit |-> "percent", precision |-> 1],
     core_yoy |-> [source_index |-> "cpi_core", computation |-> "yoy",
                   unit |-> "percent", precision |-> 1]]

(***************************************************************************)
(* Period arithmetic                                                       *)
(***************************************************************************)
Year(p) == p \div 100
Month(p) == p % 100

\* the while loop "while (targetMonth <= 0) { targetMonth += 12; targetYear -= 1 }"
\* followed by the YYYY-MM formatting
\* mutant: the rollover is applied once instead of until the month is positive
NormalizeMonthOnce(year, month) ==
    IF month <= 0 THEN (year - 1) * 100 + month + 12 ELSE year * 100 + month

RECURSIVE NormalizeMonth(_, _)
NormalizeMonth(year, month) ==
    IF month <= 0 THEN NormalizeMonth(year - 1, month + 12)
    ELSE year * 100 + month

monthsAgo(yyyymm, n) == NormalizeMonth(Year(yyyymm), Month(yyyymm) - n)

\* calendar month index, used to state properties independently of the code
Idx(p) == Year(p) * 12 + Month(p) - 1
PeriodOfIdx(i) == (i \div 12) * 100 + (i % 12) + 1

\* first reference period the source can newly publish
FirstNew == 202501
NewPeriods == {PeriodOfIdx(Idx(FirstNew) + k) : k \in 0..(MaxNew - 1)}
HistPeriods == {PeriodOfIdx(Idx(FirstNew) - k) : k \in 1..MonthsNeeded}
AllPeriods == HistPeriods \cup NewPeriods

(***************************************************************************)
(* State                                                                   *)
(***************************************************************************)
VARIABLES
    raw,          \* data/raw/<dataset>/<yyyymm>.json, per period
    normalized,   \* data/normalized/<dataset>/<yyyymm>.normalized.json, per period
    production,   \* data/latest.<dataset>.json
    candidate,    \* data/latest.<dataset>.candidate.json
    reviewFile,   \* data/latest.<dataset>.review.json
    fetch,        \* the fetch_bls.mjs process
    writer,       \* the write_update.mjs process
    review,       \* the review_update.mjs process
    editor        \* manual edits made to the candidate since it was written

files == <<raw, normalized, production, candidate, reviewFile>>
procs == <<fetch, writer, review>>
vars == <<raw, normalized, production, candidate, reviewFile, fetch, writer, review, editor>>

(***************************************************************************)
(* The statistics source's response                                        *)
(*   status: "REQUEST_SUCCEEDED" or an error status                        *)
(*   series: per series id (identified with its metric key) either no      *)
(*           entry, or the list of its data points [year, period, value],  *)
(*           period 1..12 for M01..M12 and 13 for the annual M13           *)
(***************************************************************************)
MONTHLY_PERIODS == 1..12
AnnualPeriod == 13

IsMonthly(d) == d.period \in MONTHLY_PERIODS

\* index of the first element of the data sorted by year and period
\* descending (Array.prototype.sort is stable: the earliest of equal ones)
LatestIndex(data) ==
    LET monthly == {i \in DOMAIN data : IsMonthly(data[i])}
        Newer(i, j) == \/ data[i].year > data[j].year
                       \/ data[i].year = data[j].year /\ data[i].period > data[j].period
        maximal == {i \in monthly : \A j \in monthly : ~Newer(j, i)}
    IN  CHOOSE i \in maximal : \A j \in maximal : i <= j

periodToYYYYMM(year, period) == year * 100 + period

\* mutant: the latest month of one series is taken without comparing it to
\* the latest months of the others
findLatestPeriodUnaligned(seriesData) ==
    LET ids == {k \in DOMAIN seriesData : IsSome(seriesData[k])}
        data(k) == Val(seriesData[k])
        noMonthly == \E k \in ids : \A i \in DOMAIN data(k) : ~IsMonthly(data(k)[i])
        latest(k) == data(k)[LatestIndex(data(k))]
    IN  IF noMonthly THEN None
        ELSE LET k0 == CHOOSE k \in ids : TRUE
             IN  Some([year   |-> latest(k0).year,
                       period |-> latest(k0).period,
                       values |-> [k \in DOMAIN seriesData |->
                                      IF k \in ids THEN Some(latest(k).value) ELSE None]])

\* findLatestPeriod: None when a series has no monthly data or the series
\* disagree on their latest month
findLatestPeriod(seriesData) ==
    LET ids == {k \in DOMAIN seriesData : IsSome(seriesData[k])}
        data(k) == Val(seriesData[k])
        noMonthly == \E k \in ids : \A i \in DOMAIN data(k) : ~IsMonthly(data(k)[i])
        latest(k) == data(k)[LatestIndex(data(k))]
    IN  IF noMonthly THEN None
        ELSE IF \E k, l \in ids : latest(k).year # latest(l).year
                                  \/ latest(k).period # latest(l).period
        THEN None
        ELSE LET k0 == CHOOSE k \in ids : TRUE
             IN  Some([year   |-> latest(k0).year,
                       period |-> latest(k0).period,
                       values |-> [k \in DOMAIN seriesData |->
                                      IF k \in ids THEN Some(latest(k).value) ELSE None]])

(***************************************************************************)
(* fetch_bls.mjs: normalization                                            *)
(***************************************************************************)
\* fs.readFile of a file of a directory: None when there is no such file
ReadFile(dir, p) == IF p \in DOMAIN dir THEN dir[p] ELSE None

\* loadNormalizedHistory: the snapshots of P-23 .. P-1, oldest first
\* mutant: the loop walks P-1 .. P-23, newest first
loadNormalizedHistoryNewestFirst(dir, currentYYYYMM, monthsNeeded) ==
    [j \in 1..monthsNeeded |->
        ReadFile(dir, NormalizeMonth(Year(currentYYYYMM), Month(currentYYYYMM) - j))]

loadNormalizedHistory(dir, currentYYYYMM, monthsNeeded) ==
    [j \in 1..monthsNeeded |->
        LET i == monthsNeeded - j + 1
        IN  ReadFile(dir, NormalizeMonth(Year(currentYYYYMM), Month(currentYYYYMM) - i))]

\* Math.round(raw_value * def.scale * 10^precision) / 10^precision
DisplayValue(raw_value, def) ==
    LET num == raw_value * def.scaleNum * Pow10(def.precision)
        den == def.scaleDen
    IN  ((2 * num + den * FP) \div (2 * den * FP)) * (FP \div Pow10(def.precision))

extractMetrics(latestPeriod, seriesMapping) ==
    [k \in Keys |->
        IF k \in seriesMapping /\ IsSome(latestPeriod.values[k])
        THEN LET def == METRIC_DEFINITIONS[k]
                 rv == Val(latestPeriod.values[k])
             IN  Some([raw_value |-> rv,
                       display_value |-> DisplayValue(rv, def),
                       precision |-> def.precision])
        ELSE None]

\* priorMetrics[key]: [defined |-> FALSE] when the key was not set,
\* otherwise the value stored in the production document, None for null
\* (display_value ?? value: the metrics of a production document, as
\* buildMetrics writes them, carry a value and no display_value)
PriorMetric(metrics, existingLatest, key) ==
    IF IsSome(existingLatest.metrics) /\ IsSome(metrics[key])
       /\ IsSome(Val(existingLatest.metrics)[key])
    THEN [defined |-> TRUE, v |-> Val(Val(existingLatest.metrics)[key]).value]
    ELSE [defined |-> FALSE, v |-> None]

\* metric.display_value - priorMetrics[key]; null coerces to 0
DeltaRaw(display_value, prior) ==
    display_value - (IF IsSome(prior.v) THEN Val(prior.v) ELSE 0)

ComputeDeltas(metrics, existingLatest) ==
    [k \in DOMAIN metrics |->
        LET prior == PriorMetric(metrics, existingLatest, k)
        IN  IF IsSome(metrics[k]) /\ prior.defined
            THEN LET m == Val(metrics[k])
                     delta_raw == DeltaRaw(m.display_value, prior)
                 IN  Some([raw_value |-> delta_raw,
                           display_value |-> RoundTo(delta_raw, m.precision),
                           precision |-> m.precision])
            ELSE None]

\* padTrend: exactly TREND_LENGTH values, nulls in front
padTrend(values) ==
    IF Len(values) >= TREND_LENGTH
    THEN SubSeq(values, Len(values) - TREND_LENGTH + 1, Len(values))
    ELSE [i \in 1..(TREND_LENGTH - Len(values)) |-> None] \o values

HistoricalValue(h, key) ==
    IF h = None THEN None
    ELSE IF Val(h).metrics[key] = None THEN None
    ELSE Some(Val(Val(h).metrics[key]).display_value)

ComputeTrends(metrics, history) ==
    [k \in DOMAIN metrics |->
        IF IsSome(metrics[k])
        THEN Some(padTrend([j \in DOMAIN history |-> HistoricalValue(history[j], k)]
                           \o <<Some(Val(metrics[k]).display_value)>>))
        ELSE None]

NullCount(trendValues) == Cardinality({i \in DOMAIN trendValues : trendValues[i] = None})

\* mutant: the guardrail compares with >= instead of >
GuardrailAbortsAtLimit(trends) ==
    \E k \in DOMAIN trends : IsSome(trends[k]) /\ NullCount(Val(trends[k])) >= MaxNulls

\* the guardrail: some trend has more than 12 nulls
GuardrailAborts(trends) ==
    \E k \in DOMAIN trends : IsSome(trends[k]) /\ NullCount(Val(trends[k])) > MaxNulls

RECURSIVE SumSeq(_)
SumSeq(s) == IF s = <<>> THEN 0 ELSE Val(Head(s)) + SumSeq(Tail(s))

\* Math.round(avg * 10^prec) / 10^prec, avg = sum / n
RoundAvg(sum, n, prec) ==
    ((2 * sum * Pow10(prec) + n * FP) \div (2 * n * FP)) * (FP \div Pow10(prec))

\* def = definitions[key] || INFLATION_DERIVED_METRICS[key] || { precision: 1 }
AveragePrecision(key) ==
    IF key \in DOMAIN METRIC_DEFINITIONS THEN METRIC_DEFINITIONS[key].precision
    ELSE IF key \in DOMAIN INFLATION_DERIVED_METRICS
    THEN INFLATION_DERIVED_METRICS[key].precision
    ELSE 1

\* mutant: the sum of the non-null entries is divided by 12
ComputeAveragesOver12(trends) ==
    [k \in DOMAIN trends |->
        IF IsSome(trends[k])
        THEN LET t == Val(trends[k])
                 last12 == SelectSeq(SubSeq(t, Len(t) - AvgWindow + 1, Len(t)),
                                     LAMBDA v : v # None)
             IN  IF Len(last12) > 0
                 THEN Some(RoundAvg(SumSeq(last12), AvgWindow, AveragePrecision(k)))
                 ELSE None
        ELSE None]

ComputeAverages(trends) ==
    [k \in DOMAIN trends |->
        IF IsSome(trends[k])
        THEN LET t == Val(trends[k])
                 last12 == SelectSeq(SubSeq(t, Len(t) - AvgWindow + 1, Len(t)),
                                     LAMBDA v : v # None)
             IN  IF Len(last12) > 0
                 THEN Some(RoundAvg(SumSeq(last12), Len(last12), AveragePrecision(k)))
                 ELSE None
        ELSE None]

\* buildSeriesLookup(seriesData, seriesId)[yyyymm]: the value of the last
\* monthly point of the series for the month, None when there is none
SeriesLookup(seriesData, seriesId, yyyymm) ==
    IF seriesId \notin DOMAIN seriesData \/ seriesData[seriesId] = None THEN None
    ELSE LET data == Val(seriesData[seriesId])
             hits == {i \in DOMAIN data :
                         /\ IsMonthly(data[i])
                         /\ periodToYYYYMM(data[i].year, data[i].period) = yyyymm}
         IN  IF hits = {} THEN None
             ELSE Some(data[CHOOSE i \in hits : \A j \in hits : j <= i].value)

\* mutant: the quotient is rounded towards zero
ChangePercentTruncated(currentValue, priorValue, precision) ==
    LET num == (currentValue - priorValue) * 100 * Pow10(precision)
    IN  (IF num >= 0 THEN num \div priorValue ELSE -((-num) \div priorValue))
        * (FP \div Pow10(precision))

\* Math.round(((currentValue / priorValue - 1) * 100) * 10^precision) / 10^precision
ChangePercent(currentValue, priorValue, precision) ==
    ((2 * (currentValue - priorValue) * 100 * Pow10(precision) + priorValue)
        \div (2 * priorValue)) * (FP \div Pow10(precision))

\* mutant: a metric whose reference value is missing is stored as zero
computeInflationMetricsZeroFill(seriesData, currentYYYYMM) ==
    [k \in DOMAIN INFLATION_DERIVED_METRICS |->
        LET config == INFLATION_DERIVED_METRICS[k]
            currentValue == SeriesLookup(seriesData, config.source_index, currentYYYYMM)
            priorYYYYMM == monthsAgo(currentYYYYMM,
                                     IF config.computation = "yoy" THEN 12 ELSE 1)
            priorValue == SeriesLookup(seriesData, config.source_index, priorYYYYMM)
        IN  IF currentValue = None THEN None
            ELSE Some([raw_value |-> Val(currentValue),
                       display_value |-> IF priorValue = None THEN 0
                                         ELSE ChangePercent(Val(currentValue),
                                                            Val(priorValue),
                                                            config.precision),
                       precision |-> config.precision])]

computeInflationMetrics(seriesData, currentYYYYMM) ==
    [k \in DOMAIN INFLATION_DERIVED_METRICS |->
        LET config == INFLATION_DERIVED_METRICS[k]
            currentValue == SeriesLookup(seriesData, config.source_index, currentYYYYMM)
            priorYYYYMM == monthsAgo(currentYYYYMM,
                                     IF config.computation = "yoy" THEN 12 ELSE 1)
            priorValue == SeriesLookup(seriesData, config.source_index, priorYYYYMM)
        IN  IF currentValue = None \/ priorValue = None THEN None
            ELSE Some([raw_value |-> Val(currentValue),
                       display_value |-> ChangePercent(Val(currentValue), Val(priorValue),
                                                       config.precision),
                       precision |-> config.precision])]

\* computeNormalized, up to the guardrail's process.exit
computeNormalized(dataset, dir, latestPeriod, seriesMapping, existingLatest, seriesData) ==
    LET yyyymm  == periodToYYYYMM(latestPeriod.year, latestPeriod.period)
        metrics == IF dataset = "inflation"
                   THEN computeInflationMetrics(seriesData, yyyymm)
                   ELSE extractMetrics(latestPeriod, seriesMapping)
        history == loadNormalizedHistory(dir, yyyymm, MonthsNeeded)
        deltas  == ComputeDeltas(metrics, existingLatest)
        trends  == ComputeTrends(metrics, history)
    IN  [reference_period |-> yyyymm,
         metrics |-> metrics,
         deltas |-> deltas,
         comparisons |-> [prior_release |-> deltas,
                          twelve_month_average |-> ComputeAverages(trends),
                          trend |-> trends]]

\* main's snapshot of the response: the series with their monthly points
RawSnapshot(seriesData) ==
    [k \in DOMAIN seriesData |-> IF IsSome(seriesData[k])
                    THEN Some(SelectSeq(Val(seriesData[k]), IsMonthly))
                    ELSE None]

\* mutant: the check for an existing raw file always answers no
rawFileExistsNever(yyyymm) == FALSE

rawFileExists(yyyymm) == IsSome(ReadFile(raw, yyyymm))

\* fs.writeFile(path, content): creates or replaces the file
WriteFile(dir, p, content) ==
    [q \in (DOMAIN dir) \cup {p} |-> IF q = p THEN Some(content) ELSE dir[q]]

FetchIdle == [pc |-> "idle", yyyymm |-> 0, rawData |-> None, normalizedData |-> None,
              exit |-> "none", reason |-> "none"]

FetchExit(code, why, yyyymm) ==
    [FetchIdle EXCEPT !.exit = code, !.reason = why, !.yyyymm = yyyymm]

SeriesMapping(existingLatest) ==
    IF IsSome(existingLatest.source) THEN Val(existingLatest.source).series_ids ELSE {}

\* process.env.DATASET || 'jobs': the run works on the dataset whose
\* production document is in place
DATASET == IF production.dataset = Some("inflation") THEN "inflation" ELSE "jobs"

\* main of fetch_bls.mjs from its start to the call of saveData
FetchRun(resp) ==
    /\ fetch.pc = "idle"
    /\ LET existingLatest == production
           seriesMapping  == IF DATASET = "inflation" THEN INFLATION_RAW_SERIES
                             ELSE SeriesMapping(existingLatest)
           latestPeriod   == findLatestPeriod(resp.series)
       IN  IF seriesMapping = {}
           THEN fetch' = FetchExit("1", "no_series_ids", 0)
           ELSE IF resp.status # "REQUEST_SUCCEEDED"
           THEN fetch' = FetchExit("1", "api_error", 0)
           ELSE IF (\A k \in DOMAIN resp.series : resp.series[k] = None) \/ latestPeriod = None
           THEN fetch' = FetchExit("1", "no_aligned_period", 0)
           ELSE LET lp     == Val(latestPeriod)
                    yyyymm == periodToYYYYMM(lp.year, lp.period)
                    nd     == computeNormalized(DATASET, normalized, lp, seriesMapping,
                                                existingLatest, resp.series)
                IN  IF rawFileExists(yyyymm)
                    THEN fetch' = FetchExit("0", "no_new_data", yyyymm)
                    ELSE IF GuardrailAborts(nd.comparisons.trend)
                    THEN fetch' = [FetchExit("1", "guardrail", yyyymm) EXCEPT
                                       !.normalizedData = Some(nd)]
                    ELSE fetch' = [pc |-> "saveRaw", yyyymm |-> yyyymm,
                                   rawData |-> Some(RawSnapshot(resp.series)),
                                   normalizedData |-> Some(nd),
                                   exit |-> "none", reason |-> "none"]
    /\ UNCHANGED <<files, writer, review, editor>>

\* saveData: await fs.writeFile(rawPath, ...)
FetchSaveRaw ==
    /\ fetch.pc = "saveRaw"
    /\ raw' = WriteFile(raw, fetch.yyyymm, Val(fetch.rawData))
    /\ fetch' = [fetch EXCEPT !.pc = "saveNormalized"]
    /\ UNCHANGED <<normalized, production, candidate, reviewFile, writer, review, editor>>

\* saveData: await fs.writeFile(normalizedPath, ...), then main returns
FetchSaveNormalized ==
    /\ fetch.pc = "saveNormalized"
    /\ normalized' = WriteFile(normalized, fetch.yyyymm, Val(fetch.normalizedData))
    /\ fetch' = FetchExit("0", "ingested", fetch.yyyymm)
    /\ UNCHANGED <<raw, production, candidate, reviewFile, writer, review, editor>>

(***************************************************************************)
(* Texts: sequences of one-character strings ("EMDASH" is the em-dash,     *)
(* "NL" the newline); the empty text stands for a missing or empty field   *)
(***************************************************************************)
UpperChars == <<"A", "B", "C", "D", "E", "F", "G", "H", "I", "J", "K", "L", "M",
                "N", "O", "P", "Q", "R", "S", "T", "U", "V", "W", "X", "Y", "Z">>
LowerChars == <<"a", "b", "c", "d", "e", "f", "g", "h", "i", "j", "k", "l", "m",
                "n", "o", "p", "q", "r", "s", "t", "u", "v", "w", "x", "y", "z">>
DigitChars == <<"0", "1", "2", "3", "4", "5", "6", "7", "8", "9">>

Range(f) == {f[i] : i \in DOMAIN f}

UpperSet == Range(UpperChars)
LowerOf == [c \in UpperSet |-> LowerChars[CHOOSE i \in DOMAIN UpperChars : UpperChars[i] = c]]

toLowerCaseChar(c) == IF c \in UpperSet THEN LowerOf[c] ELSE c
toLowerCase(text) == [i \in DOMAIN text |-> toLowerCaseChar(text[i])]

\* \w of a regular expression
WordChars == Range(UpperChars) \cup Range(LowerChars) \cup Range(DigitChars) \cup {"_"}
IsWordChar(c) == c \in WordChars

\* text has phrase at position i
OccursAt(text, i, phrase) ==
    /\ i + Len(phrase) - 1 <= Len(text)
    /\ \A j \in DOMAIN phrase : text[i + j - 1] = phrase[j]

\* String.prototype.includes
Includes(text, phrase) == \E i \in DOMAIN text : OccursAt(text, i, phrase)

\* Array.prototype.filter(Boolean).join(sep) on text fields
RECURSIVE JoinTexts(_, _)
JoinTexts(fields, sep) ==
    LET kept == SelectSeq(fields, LAMBDA f : f # <<>>)
    IN  IF kept = <<>> THEN <<>>
        ELSE IF Len(kept) = 1 THEN kept[1]
        ELSE kept[1] \o sep \o JoinTexts(Tail(kept), sep)

(***************************************************************************)
(* review_update.mjs: the publish gate                                     *)
(***************************************************************************)
CRITICAL_PATTERNS ==
    <<[pattern |-> "EMDASH", name |-> "em-dash"],
      [pattern |-> ";",      name |-> "semicolon"],
      [pattern |-> "!",      name |-> "exclamation point"]>>

\* /\bword\b/gi, each alternative in lower case
WARNING_PATTERNS ==
    <<
      [name |-> "Furthermore",
       alts |-> {<<"f", "u", "r", "t", "h", "e", "r", "m", "o", "r", "e">>}],
      [name |-> "Moreover",
       alts |-> {<<"m", "o", "r", "e", "o", "v", "e", "r">>}],
      [name |-> "Additionally",
       alts |-> {<<"a", "d", "d", "i", "t", "i", "o", "n", "a", "l", "l", "y">>}],
      [name |-> "Nevertheless",
       alts |-> {<<"n", "e", "v", "e", "r", "t", "h", "e", "l", "e", "s", "s">>}],
      [name |-> "Consequently",
       alts |-> {<<"c", "o", "n", "s", "e", "q", "u", "e", "n", "t", "l", "y">>}],
      [name |-> "It's worth noting",
       alts |-> {<<"i", "t", "'", "s", " ", "w", "o", "r", "t", "h", " ", "n", "o", "t", "i", "n", "g">>, <<"i", "t", "s", " ", "w", "o", "r", "t", "h", " ", "n", "o", "t", "i", "n", "g">>}],
      [name |-> "It should be noted",
       alts |-> {<<"i", "t", " ", "s", "h", "o", "u", "l", "d", " ", "b", "e", " ", "n", "o", "t", "e", "d">>}],
      [name |-> "Notably",
       alts |-> {<<"n", "o", "t", "a", "b", "l", "y">>}],
      [name |-> "Significantly",
       alts |-> {<<"s", "i", "g", "n", "i", "f", "i", "c", "a", "n", "t", "l", "y">>}],
      [name |-> "Interestingly",
       alts |-> {<<"i", "n", "t", "e", "r", "e", "s", "t", "i", "n", "g", "l", "y">>}],
      [name |-> "Importantly",
       alts |-> {<<"i", "m", "p", "o", "r", "t", "a", "n", "t", "l", "y">>}],
      [name |-> "This is significant",
       alts |-> {<<"t", "h", "i", "s", " ", "i", "s", " ", "s", "i", "g", "n", "i", "f", "i", "c", "a", "n", "t">>}],
      [name |-> "In terms of",
       alts |-> {<<"i", "n", " ", "t", "e", "r", "m", "s", " ", "o", "f">>}],
      [name |-> "utilize",
       alts |-> {<<"u", "t", "i", "l", "i", "z", "e">>}],
      [name |-> "leverage",
       alts |-> {<<"l", "e", "v", "e", "r", "a", "g", "e">>}],
      [name |-> "robust",
       alts |-> {<<"r", "o", "b", "u", "s", "t">>}]>>

extractTextFields(data) ==
    JoinTexts(<<data.headline.title, data.headline.summary, data.headline.context,
                data.editorial.what_changed, data.editorial.what_didnt,
                data.editorial.why_it_matters, data.editorial.revision_note,
                data.editorial.editor_note>>, <<"NL">>)

\* text.match(/c/g).length for a one-character pattern
CountChar(text, c) == Cardinality({i \in DOMAIN text : text[i] = c})

\* a match of /\balt\b/i that starts at position i
WordMatchAt(text, i, alt) ==
    /\ (i = 1 \/ ~IsWordChar(text[i - 1]))
    /\ i + Len(alt) - 1 <= Len(text)
    /\ \A j \in DOMAIN alt : toLowerCaseChar(text[i + j - 1]) = alt[j]
    /\ (i + Len(alt) - 1 = Len(text) \/ ~IsWordChar(text[i + Len(alt)]))

\* text.match(/\b(alt1|alt2)\b/gi).length: the number of positions a match
\* starts at (no pattern of the list can overlap a match of itself)
CountWord(text, alts) ==
    Cardinality({i \in DOMAIN text : \E a \in alts : WordMatchAt(text, i, a)})

\* mutant: the linter reports a pattern once per run without its count
runLinterFlagsOnly(cand) ==
    LET text == extractTextFields(cand)
        err(j) == [name |-> CRITICAL_PATTERNS[j].name,
                   count |-> IF CountChar(text, CRITICAL_PATTERNS[j].pattern) > 0 THEN 1 ELSE 0]
        wrn(j) == [name |-> WARNING_PATTERNS[j].name,
                   count |-> CountWord(text, WARNING_PATTERNS[j].alts)]
    IN  [errors   |-> SelectSeq([j \in DOMAIN CRITICAL_PATTERNS |-> err(j)],
                                LAMBDA e : e.count > 0),
         warnings |-> SelectSeq([j \in DOMAIN WARNING_PATTERNS |-> wrn(j)],
                                LAMBDA w : w.count > 0)]

runLinter(cand) ==
    LET text == extractTextFields(cand)
        err(j) == [name |-> CRITICAL_PATTERNS[j].name,
                   count |-> CountChar(text, CRITICAL_PATTERNS[j].pattern)]
        wrn(j) == [name |-> WARNING_PATTERNS[j].name,
                   count |-> CountWord(text, WARNING_PATTERNS[j].alts)]
    IN  [errors   |-> SelectSeq([j \in DOMAIN CRITICAL_PATTERNS |-> err(j)],
                                LAMBDA e : e.count > 0),
         warnings |-> SelectSeq([j \in DOMAIN WARNING_PATTERNS |-> wrn(j)],
                                LAMBDA w : w.count > 0)]

REQUIRED_SIGNAL_SENTENCE ==
    <<"S", "i", "g", "n", "a", "l", ":", " ", "d", "e", "c", "e", "l", "e",
      "r", "a", "t", "i", "n", "g", " ", "a", "n", "d", " ", "t", "i", "g",
      "h", "t", ".">>

\* the reason strings of the gate, kept as their parts
Reason(kind, expected, actual, phrase) ==
    [kind |-> kind, expected |-> expected, actual |-> actual, phrase |-> phrase]
NoReason == Reason("none", <<>>, <<>>, <<>>)

validateSignalSentence(cand) ==
    LET context == cand.headline.context
    IN  IF context = <<>>
        THEN [valid |-> FALSE, error |-> Reason("missing_context", <<>>, <<>>, <<>>)]
        ELSE IF context # REQUIRED_SIGNAL_SENTENCE
        THEN [valid |-> FALSE,
              error |-> Reason("signal_mismatch", REQUIRED_SIGNAL_SENTENCE, context, <<>>)]
        ELSE [valid |-> TRUE, error |-> NoReason]

forbidden ==
    <<
      <<"i", "n", "f", "o", "r", "m", "s", " ", "p", "o", "l", "i", "c", "y">>,
      <<"s", "u", "g", "g", "e", "s", "t", "s", " ", "i", "m", "p", "l", "i", "c", "a", "t", "i", "o", "n", "s">>,
      <<"a", "f", "f", "e", "c", "t", "s", " ", "d", "e", "c", "i", "s", "i", "o", "n", "s">>,
      <<"p", "o", "i", "n", "t", "s", " ", "t", "o">>,
      <<"i", "n", "d", "i", "c", "a", "t", "e", "s", " ", "t", "h", "a", "t">>,
      <<"i", "m", "p", "l", "i", "e", "s">>,
      <<"s", "i", "g", "n", "a", "l", "s", " ", "t", "h", "a", "t">>>>

validateNoInterpretation(cand) ==
    LET editorial == cand.editorial
        allText == toLowerCase(JoinTexts(<<editorial.what_changed, editorial.what_didnt,
                                           editorial.why_it_matters>>, <<" ">>))
        hits == {j \in DOMAIN forbidden : Includes(allText, toLowerCase(forbidden[j]))}
    IN  IF hits # {}
        THEN [valid |-> FALSE,
              error |-> Reason("forbidden_phrase", <<>>, <<>>,
                               forbidden[CHOOSE j \in hits : \A l \in hits : j <= l])]
        ELSE [valid |-> TRUE, error |-> NoReason]

\* what the external audit does: no credential, a PASS or FAIL answer, an
\* answer with another status, or a call that throws
AIOutcomes == {"no_key", "PASS", "FAIL", "invalid", "throws"}

\* mutant: an audit that throws or answers without a valid status counts as
\* skipped
runAIAuditErrorSkips(cand, ai) ==
    LET signalCheck == validateSignalSentence(cand)
        interpretCheck == validateNoInterpretation(cand)
    IN  IF ~signalCheck.valid
        THEN [status |-> "FAIL", reason |-> signalCheck.error, flag |-> "SIGNAL_MISMATCH"]
        ELSE IF ~interpretCheck.valid
        THEN [status |-> "FAIL", reason |-> interpretCheck.error,
              flag |-> "FORBIDDEN_INTERPRETATION"]
        ELSE IF ai \in {"PASS", "FAIL"}
        THEN [status |-> ai, reason |-> Reason("ai_reason", <<>>, <<>>, <<>>), flag |-> "AI"]
        ELSE [status |-> "PASS", reason |-> Reason("ai_skipped", <<>>, <<>>, <<>>),
              flag |-> "NO_AI_AUDIT"]

runAIAudit(cand, ai) ==
    LET signalCheck == validateSignalSentence(cand)
        interpretCheck == validateNoInterpretation(cand)
    IN  IF ~signalCheck.valid
        THEN [status |-> "FAIL", reason |-> signalCheck.error, flag |-> "SIGNAL_MISMATCH"]
        ELSE IF ~interpretCheck.valid
        THEN [status |-> "FAIL", reason |-> interpretCheck.error,
              flag |-> "FORBIDDEN_INTERPRETATION"]
        ELSE IF ai = "no_key"
        THEN [status |-> "PASS", reason |-> Reason("ai_skipped", <<>>, <<>>, <<>>),
              flag |-> "NO_AI_AUDIT"]
        ELSE IF ai \in {"PASS", "FAIL"}
        THEN [status |-> ai, reason |-> Reason("ai_reason", <<>>, <<>>, <<>>), flag |-> "AI"]
        ELSE [status |-> "FAIL", reason |-> Reason("ai_error", <<>>, <<>>, <<>>),
              flag |-> "AI_ERROR"]

validateNumericConsistency(cand) == <<>>

NoAudit == [status |-> "none", reason |-> NoReason, flag |-> "none"]

\* main of review_update.mjs from the linter's result to the review record
ReviewRecord(linter, cand, ai) ==
    LET numeric_check == validateNumericConsistency(cand)
        ai_audit == runAIAudit(cand, ai)
    IN  IF Len(linter.errors) > 0
        THEN [linter |-> linter, ai_audit |-> NoAudit, final_status |-> "FAIL",
              fail_reason |-> Reason("linter_errors", <<>>, <<>>, <<>>)]
        ELSE IF ai_audit.status = "FAIL"
        THEN [linter |-> linter, ai_audit |-> ai_audit, final_status |-> "FAIL",
              fail_reason |-> ai_audit.reason]
        ELSE IF Len(numeric_check) > 0
        THEN [linter |-> linter, ai_audit |-> ai_audit, final_status |-> "FAIL",
              fail_reason |-> Reason("numeric", <<>>, <<>>, <<>>)]
        ELSE [linter |-> linter, ai_audit |-> ai_audit, final_status |-> "PASS",
              fail_reason |-> NoReason]

\* the run gets as far as the credential test of runAIAudit
AuditReached(linter, cand) ==
    /\ Len(linter.errors) = 0
    /\ validateSignalSentence(cand).valid
    /\ validateNoInterpretation(cand).valid

ReviewIdle ==
    [pc |-> "idle", candidate |-> None, review |-> None, ai |-> "none", exit |-> "none"]

\* main: load the candidate, lint and audit it; ai is what the external
\* audit does in this run
ReviewLoad ==
    /\ review.pc = "idle"
    /\ IF candidate = None
       THEN review' = [ReviewIdle EXCEPT !.exit = "1"]
       ELSE LET linter == runLinter(Val(candidate))
            IN  \E ai \in AIOutcomes :
                    review' = [pc |-> "writeReview", candidate |-> candidate,
                               review |-> Some(ReviewRecord(linter, Val(candidate), ai)),
                               ai |-> IF AuditReached(linter, Val(candidate))
                                      THEN ai ELSE "none",
                               exit |-> "none"]
    /\ UNCHANGED <<files, fetch, writer, editor>>

\* mutant: the report is written for a failed review only
ReviewWriteReportOnFail ==
    /\ review.pc = "writeReview"
    /\ reviewFile' = IF Val(review.review).final_status = "FAIL"
                     THEN review.review ELSE reviewFile
    /\ review' = [review EXCEPT !.pc = "act"]
    /\ UNCHANGED <<raw, normalized, production, candidate, fetch, writer, editor>>

\* main: await fs.writeFile(reviewPath, ...)
ReviewWriteReport ==
    /\ review.pc = "writeReview"
    /\ reviewFile' = review.review
    /\ review' = [review EXCEPT !.pc = "act"]
    /\ UNCHANGED <<raw, normalized, production, candidate, fetch, writer, editor>>

\* mutant: the promotion copies the candidate and leaves it in place
ReviewActCopies ==
    /\ review.pc = "act"
    /\ IF Val(review.review).final_status = "PASS" /\ candidate # None
       THEN /\ production' = Val(candidate)
            /\ review' = [ReviewIdle EXCEPT !.exit = "0"]
            /\ UNCHANGED candidate
       ELSE /\ review' = [ReviewIdle EXCEPT !.exit = "1"]
            /\ UNCHANGED <<production, candidate>>
    /\ UNCHANGED <<raw, normalized, reviewFile, fetch, writer, editor>>

\* mutant: a failed candidate is removed
ReviewActDiscards ==
    /\ review.pc = "act"
    /\ IF Val(review.review).final_status = "PASS" /\ candidate # None
       THEN /\ production' = Val(candidate)
            /\ candidate' = None
            /\ review' = [ReviewIdle EXCEPT !.exit = "0"]
       ELSE /\ review' = [ReviewIdle EXCEPT !.exit = "1"]
            /\ candidate' = None
            /\ UNCHANGED production
    /\ UNCHANGED <<raw, normalized, reviewFile, fetch, writer, editor>>

\* mutant: the promotion writes the content the run loaded over production
\* and removes the candidate file
ReviewActWritesLoaded ==
    /\ review.pc = "act"
    /\ IF Val(review.review).final_status = "PASS"
       THEN IF candidate # None
            THEN /\ production' = Val(review.candidate)
                 /\ candidate' = None
                 /\ review' = [ReviewIdle EXCEPT !.exit = "0"]
            ELSE /\ review' = [ReviewIdle EXCEPT !.exit = "1"]
                 /\ UNCHANGED <<production, candidate>>
       ELSE /\ review' = [ReviewIdle EXCEPT !.exit = "1"]
            /\ UNCHANGED <<production, candidate>>
    /\ UNCHANGED <<raw, normalized, reviewFile, fetch, writer, editor>>

\* main: on PASS fs.rename(candidatePath, latestPath) and exit 0 (exit 1 when
\* the rename throws because the candidate is gone), on FAIL exit 1
ReviewAct ==
    /\ review.pc = "act"
    /\ IF Val(review.review).final_status = "PASS"
       THEN IF candidate # None
            THEN /\ production' = Val(candidate)
                 /\ candidate' = None
                 /\ review' = [ReviewIdle EXCEPT !.exit = "0"]
            ELSE /\ review' = [ReviewIdle EXCEPT !.exit = "1"]
                 /\ UNCHANGED <<production, candidate>>
       ELSE /\ review' = [ReviewIdle EXCEPT !.exit = "1"]
            /\ UNCHANGED <<production, candidate>>
    /\ UNCHANGED <<raw, normalized, reviewFile, fetch, writer, editor>>

(***************************************************************************)
(* bootstrap_bls_history.mjs: the backfill that seeds the history          *)
(***************************************************************************)
\* the values the source holds for a month of the backfilled history
HistRaw(k, p) ==
    IF k = "payrolls" THEN (1000 + (1000 * (Idx(p) % 3))) * FP + 400
    ELSE 4000 + (100 * (Idx(p) % 4)) + 40

transformToStructuredMetrics(p) ==
    [k \in Keys |-> Some([raw_value |-> HistRaw(k, p),
                          display_value |-> DisplayValue(HistRaw(k, p), METRIC_DEFINITIONS[k]),
                          precision |-> METRIC_DEFINITIONS[k].precision])]

\* the index levels the source holds for a month
IndexValue(indexKey, p) ==
    IF indexKey = "cpi_all_items"
    THEN 314852 + (900 * (Idx(p) - 24288)) + (50 * (Idx(p) % 3))
    ELSE 320000 + (800 * (Idx(p) - 24288)) + (70 * (Idx(p) % 2))

\* computeInflationMonths and transformInflationMetrics: the computed change
\* is stored as raw value and as display value
transformInflationMetrics(p) ==
    [k \in DOMAIN INFLATION_DERIVED_METRICS |->
        LET config == INFLATION_DERIVED_METRICS[k]
            priorYYYYMM == monthsAgo(p, IF config.computation = "yoy" THEN 12 ELSE 1)
            value == ChangePercent(IndexValue(config.source_index, p),
                                   IndexValue(config.source_index, priorYYYYMM),
                                   config.precision)
        IN  Some([raw_value |-> value, display_value |-> value,
                  precision |-> config.precision])]

StructuredMetrics(dataset, p) ==
    IF dataset = "inflation" THEN transformInflationMetrics(p)
    ELSE transformToStructuredMetrics(p)

\* the months of a set, oldest first
RECURSIVE SortedMonths(_)
SortedMonths(S) ==
    IF S = {} THEN <<>>
    ELSE LET m == CHOOSE x \in S : \A y \in S : x <= y
         IN  <<m>> \o SortedMonths(S \ {m})

\* writeNormalizedSnapshot for the i-th processed month: the trend holds the
\* months processed before it in the same run
writeNormalizedSnapshot(dataset, months, i) ==
    LET metrics == StructuredMetrics(dataset, months[i])
        deltas  == [k \in DOMAIN metrics |->
                      IF i > 1
                      THEN LET prior == Val(StructuredMetrics(dataset, months[i - 1])[k])
                               m == Val(metrics[k])
                               delta_raw == m.display_value - prior.display_value
                           IN  Some([raw_value |-> delta_raw,
                                     display_value |-> RoundTo(delta_raw, m.precision),
                                     precision |-> m.precision])
                      ELSE None]
        trends  == [k \in DOMAIN metrics |->
                      Some(padTrend([j \in 1..i |->
                              Some(Val(StructuredMetrics(dataset, months[j])[k]).display_value)]))]
    IN  [reference_period |-> months[i],
         metrics |-> metrics,
         deltas |-> deltas,
         comparisons |-> [prior_release |-> deltas,
                          twelve_month_average |-> ComputeAverages(trends),
                          trend |-> trends]]

writeRawSnapshot(p) == [k \in Keys |-> Some(<<[year |-> Year(p), period |-> Month(p),
                                               value |-> HistRaw(k, p)]>>)]

\* the normalized directory after a backfill of the months in S
BootstrapNormalized(S) ==
    LET months == SortedMonths(S)
    IN  [p \in AllPeriods |->
            IF p \in S
            THEN Some(writeNormalizedSnapshot("jobs", months,
                                              CHOOSE i \in DOMAIN months : months[i] = p))
            ELSE None]

\* the directories of the inflation dataset after a backfill of the months in S
BootstrapInflationNormalized(S) ==
    LET months == SortedMonths(S)
    IN  [p \in S |-> Some(writeNormalizedSnapshot("inflation", months,
                                                  CHOOSE i \in DOMAIN months : months[i] = p))]

BootstrapInflationRaw(S) ==
    [p \in S |-> Some([k \in INFLATION_RAW_SERIES |->
                          Some(<<[year |-> Year(p), period |-> Month(p),
                                  value |-> IndexValue(k, p)]>>)])]

BootstrapRaw(S) == [p \in AllPeriods |-> IF p \in S THEN Some(writeRawSnapshot(p)) ELSE None]

(***************************************************************************)
(* Release documents                                                       *)
(***************************************************************************)
FALLBACK_TEXT ==
    <<"N", "o", " ", "m", "a", "t", "e", "r", "i", "a", "l", " ", "c", "h",
      "a", "n", "g", "e", "s", " ", "w", "e", "r", "e", " ", "r", "e", "c",
      "o", "r", "d", "e", "d", " ", "i", "n", " ", "t", "h", "i", "s", " ",
      "r", "e", "l", "e", "a", "s", "e", ".">>

NoEditorial == [what_changed |-> <<>>, what_didnt |-> <<>>, why_it_matters |-> <<>>,
                revision_note |-> <<>>, editor_note |-> <<>>]

(***************************************************************************)
(* write_update.mjs: the writer                                            *)
(***************************************************************************)
MONTH_NAMES ==
    <<<<"J", "a", "n", "u", "a", "r", "y">>,
      <<"F", "e", "b", "r", "u", "a", "r", "y">>,
      <<"M", "a", "r", "c", "h">>,
      <<"A", "p", "r", "i", "l">>,
      <<"M", "a", "y">>,
      <<"J", "u", "n", "e">>,
      <<"J", "u", "l", "y">>,
      <<"A", "u", "g", "u", "s", "t">>,
      <<"S", "e", "p", "t", "e", "m", "b", "e", "r">>,
      <<"O", "c", "t", "o", "b", "e", "r">>,
      <<"N", "o", "v", "e", "m", "b", "e", "r">>,
      <<"D", "e", "c", "e", "m", "b", "e", "r">>>>

\* mutant: the context the writer sets is the sentence of the signal table
SIGNAL_SENTENCE_FromTable ==
    <<"S", "i", "g", "n", "a", "l", ":", " ", "d", "e", "c", "e", "l", "e", "r", "a", "t", "i", "n", "g", ".", " ", "L", "a", "b", "o", "r", " ", "m", "a", "r", "k", "e", "t", " ", "c", "o", "n", "d", "i", "t", "i", "o", "n", "s", " ", "r", "e", "m", "a", "i", "n", " ", "t", "i", "g", "h", "t", ".">>

SIGNAL_SENTENCE ==
    <<"S", "i", "g", "n", "a", "l", ":", " ", "d", "e", "c", "e", "l", "e", "r", "a", "t", "i", "n", "g", " ", "a", "n", "d", " ", "t", "i", "g", "h", "t", ".">>

RECURSIVE Digits(_)
Digits(n) == IF n < 10 THEN <<DigitChars[n + 1]>>
             ELSE Digits(n \div 10) \o <<DigitChars[(n % 10) + 1]>>

\* the three digits of a group after a thousands separator
Group3(n) == <<DigitChars[(n \div 100) + 1], DigitChars[((n \div 10) % 10) + 1],
               DigitChars[(n % 10) + 1]>>

RECURSIVE Grouped(_)
Grouped(n) == IF n < 1000 THEN Digits(n)
              ELSE Grouped(n \div 1000) \o <<",">> \o Group3(n % 1000)

\* the fractional digits of a value in thousandths, trailing zeros dropped
Fraction(f) ==
    IF f = 0 THEN <<>>
    ELSE IF f % 100 = 0 THEN <<".", DigitChars[(f \div 100) + 1]>>
    ELSE IF f % 10 = 0 THEN <<".", DigitChars[(f \div 100) + 1], DigitChars[((f \div 10) % 10) + 1]>>
    ELSE <<".">> \o Group3(f)

Abs(v) == IF v < 0 THEN -v ELSE v

\* String(number), as in a template literal
NumberText(v) ==
    (IF v < 0 THEN <<"-">> ELSE <<>>) \o Digits(Abs(v) \div FP) \o Fraction(Abs(v) % FP)

\* Number.prototype.toLocaleString('en-US') of a non-negative number
LocaleText(v) == Grouped(v \div FP) \o Fraction(v % FP)

\* Number.prototype.toFixed(1) of a non-negative number
ToFixed1(v) ==
    LET r == RoundTo(v, 1)
    IN  Digits(r \div FP) \o <<".", DigitChars[((r % FP) \div 100) + 1]>>

formatPeriodForDisplay(yyyymm) ==
    MONTH_NAMES[Month(yyyymm)] \o <<" ">> \o Digits(Year(yyyymm))

\* false for null, undefined and zero
hasValue(val) == IsSome(val) /\ Val(val) # 0

\* the display value of a metric or delta of the snapshot, None if missing
extractValue(metric) ==
    IF metric = None THEN None ELSE Some(Val(metric).display_value)

\* normalized.metrics?.[key] and normalized.deltas?.[key]
MetricOf(norm, key) == IF key \in DOMAIN norm.metrics THEN norm.metrics[key] ELSE None
DeltaOf(norm, key) == IF key \in DOMAIN norm.deltas THEN norm.deltas[key] ELSE None

formatNumber(value) ==
    IF ~hasValue(value) THEN <<>> ELSE LocaleText(Abs(Val(value)))

\* delta > 0 ? 'increased by' : 'declined by'
Verb(delta) ==
    IF delta > 0 THEN <<"i", "n", "c", "r", "e", "a", "s", "e", "d", " ", "b", "y">>
    ELSE <<"d", "e", "c", "l", "i", "n", "e", "d", " ", "b", "y">>

\* the sentence builders return the empty text for null
buildPayrollsSentence(norm) ==
    LET delta == extractValue(DeltaOf(norm, "payrolls"))
    IN  IF ~hasValue(delta) THEN <<>>
        ELSE IF formatNumber(delta) = <<>> THEN <<>>
        ELSE <<"N", "o", "n", "f", "a", "r", "m", " ", "p", "a", "y", "r", "o", "l", "l", "s", " ">>
             \o Verb(Val(delta)) \o <<" ">> \o formatNumber(delta) \o <<".">>

buildUnemploymentSentence(norm) ==
    LET level == extractValue(MetricOf(norm, "unemployment_rate"))
        delta == extractValue(DeltaOf(norm, "unemployment_rate"))
    IN  IF hasValue(delta)
        THEN <<"T", "h", "e", " ", "u", "n", "e", "m", "p", "l", "o", "y", "m", "e", "n", "t", " ", "r", "a", "t", "e", " ">>
             \o Verb(Val(delta)) \o <<" ">> \o NumberText(Abs(Val(delta)))
             \o <<" ", "p", "e", "r", "c", "e", "n", "t", "a", "g", "e", " ", "p", "o", "i", "n", "t", ".">>
        ELSE IF hasValue(level)
        THEN <<"T", "h", "e", " ", "u", "n", "e", "m", "p", "l", "o", "y", "m", "e", "n", "t", " ", "r", "a", "t", "e", " ", "s", "t", "a", "n", "d", "s", " ", "a", "t", " ">>
             \o NumberText(Val(level)) \o <<" ", "p", "e", "r", "c", "e", "n", "t", ".">>
        ELSE <<>>

buildParticipationSentence(norm) ==
    LET level == extractValue(MetricOf(norm, "labor_force_participation"))
    IN  IF ~hasValue(level) THEN <<>>
        ELSE <<"L", "a", "b", "o", "r", " ", "f", "o", "r", "c", "e", " ", "p", "a", "r", "t", "i", "c", "i", "p", "a", "t", "i", "o", "n", " ", "s", "t", "a", "n", "d", "s", " ", "a", "t", " ">>
             \o NumberText(Val(level)) \o <<" ", "p", "e", "r", "c", "e", "n", "t", ".">>

buildWagesSentence(norm) ==
    LET delta == extractValue(DeltaOf(norm, "average_hourly_earnings_yoy"))
    IN  IF ~hasValue(delta) THEN <<>>
        ELSE <<"A", "v", "e", "r", "a", "g", "e", " ", "h", "o", "u", "r", "l", "y", " ", "e", "a", "r", "n", "i", "n", "g", "s", " ">>
             \o Verb(Val(delta)) \o <<" ">> \o ToFixed1(Abs(Val(delta)))
             \o <<" ", "p", "e", "r", "c", "e", "n", "t", ".">>

\* mutant: the verb is chosen by delta >= 0, and a zero delta is not silenced
buildCpiMomSentenceZeroRises(norm) ==
    LET delta == extractValue(DeltaOf(norm, "cpi_mom"))
    IN  IF delta = None THEN <<>>
        ELSE <<"M", "o", "n", "t", "h", "l", "y", " ", "p", "r", "i", "c", "e", "s", " ">>
             \o (IF Val(delta) >= 0 THEN <<"r", "o", "s", "e", " ", "b", "y">> ELSE <<"f", "e", "l", "l", " ", "b", "y">>)
             \o <<" ">> \o ToFixed1(Abs(Val(delta)))
             \o <<" ", "p", "e", "r", "c", "e", "n", "t", ".">>

\* the second definition of buildCpiMomSentence, which is the one in effect:
\* delta > 0 ? 'rose by' : 'fell by'
buildCpiMomSentence(norm) ==
    LET delta == extractValue(DeltaOf(norm, "cpi_mom"))
    IN  IF ~hasValue(delta) THEN <<>>
        ELSE <<"M", "o", "n", "t", "h", "l", "y", " ", "p", "r", "i", "c", "e", "s", " ">>
             \o (IF Val(delta) > 0 THEN <<"r", "o", "s", "e", " ", "b", "y">> ELSE <<"f", "e", "l", "l", " ", "b", "y">>)
             \o <<" ">> \o ToFixed1(Abs(Val(delta)))
             \o <<" ", "p", "e", "r", "c", "e", "n", "t", ".">>

buildCpiSentence(norm) ==
    LET level == extractValue(MetricOf(norm, "cpi_all_items_yoy"))
    IN  IF ~hasValue(level) THEN <<>>
        ELSE <<"T", "h", "e", " ", "C", "o", "n", "s", "u", "m", "e", "r", " ", "P", "r", "i", "c", "e", " ", "I", "n", "d", "e", "x", " ", "s", "t", "a", "n", "d", "s", " ", "a", "t", " ">>
             \o NumberText(Val(level))
             \o <<" ", "p", "e", "r", "c", "e", "n", "t", " ", "y", "e", "a", "r", "-", "o", "v", "e", "r", "-", "y", "e", "a", "r", ".">>

buildCoreCpiSentence(norm) ==
    LET level == extractValue(MetricOf(norm, "cpi_core_yoy"))
    IN  IF ~hasValue(level) THEN <<>>
        ELSE <<"C", "o", "r", "e", " ", "C", "P", "I", " ", "s", "t", "a", "n", "d", "s", " ", "a", "t", " ">>
             \o NumberText(Val(level))
             \o <<" ", "p", "e", "r", "c", "e", "n", "t", " ", "y", "e", "a", "r", "-", "o", "v", "e", "r", "-", "y", "e", "a", "r", ".">>

\* mutant: the parts are joined by two spaces
JoinOrFallbackTwoSpaces(parts) ==
    IF JoinTexts(parts, <<" ", " ">>) = <<>> THEN FALLBACK_TEXT
    ELSE JoinTexts(parts, <<" ", " ">>)

\* parts.filter(Boolean) joined by ' ', the fallback text when none is left
JoinOrFallback(parts) ==
    IF JoinTexts(parts, <<" ">>) = <<>> THEN FALLBACK_TEXT ELSE JoinTexts(parts, <<" ">>)

\* buildHeadline for the jobs dataset
buildJobsHeadline(norm) ==
    LET period == formatPeriodForDisplay(norm.reference_period)
        delta == extractValue(DeltaOf(norm, "payrolls"))
    IN  IF ~hasValue(delta)
        THEN [title   |-> <<"J", "o", "b", "s", " ", "R", "e", "p", "o", "r", "t", ":", " ">> \o period,
              summary |-> FALLBACK_TEXT,
              context |-> SIGNAL_SENTENCE]
        ELSE [title   |-> <<"P", "a", "y", "r", "o", "l", "l", "s", " ">> \o Verb(Val(delta)) \o <<" ">>
                          \o formatNumber(delta) \o <<" ", "i", "n", " ">> \o period,
              summary |-> JoinOrFallback(<<buildPayrollsSentence(norm),
                                           buildUnemploymentSentence(norm)>>),
              context |-> SIGNAL_SENTENCE]

\* buildHeadline for the inflation dataset
buildInflationHeadline(norm) ==
    LET period == formatPeriodForDisplay(norm.reference_period)
        level == extractValue(MetricOf(norm, "cpi_all_items_yoy"))
    IN  IF ~hasValue(level)
        THEN [title   |-> <<"I", "n", "f", "l", "a", "t", "i", "o", "n", " ", "R", "e", "p", "o", "r", "t", ":", " ">> \o period,
              summary |-> FALLBACK_TEXT,
              context |-> SIGNAL_SENTENCE]
        ELSE [title   |-> <<"I", "n", "f", "l", "a", "t", "i", "o", "n", " ", "m", "e", "a", "s", "u", "r", "e", "d", " ">> \o NumberText(Val(level))
                          \o <<" ", "p", "e", "r", "c", "e", "n", "t", " ", "y", "e", "a", "r", "-", "o", "v", "e", "r", "-", "y", "e", "a", "r", " ", "i", "n", " ">> \o period,
              summary |-> JoinOrFallback(<<buildCpiSentence(norm), buildCpiMomSentence(norm)>>),
              context |-> SIGNAL_SENTENCE]

buildHeadline(dataset, norm) ==
    IF dataset = "inflation" THEN buildInflationHeadline(norm) ELSE buildJobsHeadline(norm)

\* buildEditorial for the jobs dataset and for the inflation dataset
buildEditorial(dataset, norm) ==
    IF dataset = "inflation"
    THEN [what_changed   |-> JoinOrFallback(<<buildCpiSentence(norm),
                                              buildCpiMomSentence(norm)>>),
          what_didnt     |-> buildCoreCpiSentence(norm),
          why_it_matters |-> <<>>,
          revision_note  |-> <<>>,
          editor_note    |-> <<>>]
    ELSE [what_changed   |-> JoinOrFallback(<<buildPayrollsSentence(norm),
                                              buildUnemploymentSentence(norm),
                                              buildWagesSentence(norm)>>),
          what_didnt     |-> buildParticipationSentence(norm),
          why_it_matters |-> <<>>,
          revision_note  |-> <<>>,
          editor_note    |-> <<>>]

\* the words of the signal vocabulary as texts, with a capitalised and an
\* unlisted one
SignalWords ==
    [decelerating |-> <<"d", "e", "c", "e", "l", "e", "r", "a", "t", "i", "n", "g">>,
     accelerating |-> <<"a", "c", "c", "e", "l", "e", "r", "a", "t", "i", "n", "g">>,
     steady |-> <<"s", "t", "e", "a", "d", "y">>,
     tight |-> <<"t", "i", "g", "h", "t">>,
     loosening |-> <<"l", "o", "o", "s", "e", "n", "i", "n", "g">>,
     neutral |-> <<"n", "e", "u", "t", "r", "a", "l">>,
     elevated |-> <<"e", "l", "e", "v", "a", "t", "e", "d">>,
     moderating |-> <<"m", "o", "d", "e", "r", "a", "t", "i", "n", "g">>,
     stable |-> <<"s", "t", "a", "b", "l", "e">>,
     easing |-> <<"e", "a", "s", "i", "n", "g">>,
     mixed |-> <<"m", "i", "x", "e", "d">>,
     Steady |-> <<"S", "t", "e", "a", "d", "y">>]

\* the text of a signal field; the empty string is the empty text
SignalText(word) == IF word = "" THEN <<>> ELSE SignalWords[word]

JobsStates == {"decelerating", "accelerating", "steady"}
JobsPressures == {"tight", "loosening", "neutral"}
InflationStates == {"elevated", "moderating", "stable"}
InflationPressures == {"tight", "easing", "neutral"}

\* SIGNAL_SENTENCES of docs/SIGNAL_SENTENCE_MAPPING.md, keyed by the pair
\* (state, pressure): 'Signal: <state>. Labor market conditions remain
\* tight.' / '... are <pressure>.' for the jobs signals and 'Signal:
\* <state>. Price pressures remain tight.' / '... are <pressure>.' for the
\* inflation signals
SIGNAL_SENTENCES ==
    [key \in {<<SignalText(st), SignalText(pr)>> : st \in JobsStates, pr \in JobsPressures}
             \cup {<<SignalText(st), SignalText(pr)>> :
                      st \in InflationStates, pr \in InflationPressures} |->
        <<"S", "i", "g", "n", "a", "l", ":", " ">> \o key[1] \o <<".", " ">>
        \o (IF key[1] \in {SignalText(st) : st \in JobsStates}
            THEN <<"L", "a", "b", "o", "r", " ", "m", "a", "r", "k", "e", "t", " ", "c", "o", "n", "d", "i", "t", "i", "o", "n", "s">>
            ELSE <<"P", "r", "i", "c", "e", " ", "p", "r", "e", "s", "s", "u", "r", "e", "s">>)
        \o (IF key[2] = SignalText("tight") THEN <<" ", "r", "e", "m", "a", "i", "n", " ", "t", "i", "g", "h", "t">>
            ELSE <<" ", "a", "r", "e", " ">> \o key[2])
        \o <<".">>]

\* getSignalSentence of docs/SIGNAL_SENTENCE_MAPPING.md
getSignalSentence(signal) ==
    IF signal = None \/ Val(signal).state = "" \/ Val(signal).pressure = ""
    THEN <<"S", "i", "g", "n", "a", "l", ":", " ", "n", "o", "t", " ", "s", "e", "t", ".">>
    ELSE LET key == <<toLowerCase(SignalText(Val(signal).state)),
                      toLowerCase(SignalText(Val(signal).pressure))>>
         IN  IF key \in DOMAIN SIGNAL_SENTENCES THEN SIGNAL_SENTENCES[key]
             ELSE <<"S", "i", "g", "n", "a", "l", ":", " ">> \o key[1] \o <<".", " ", "C", "o", "n", "d", "i", "t", "i", "o", "n", "s", " ", "a", "r", "e", " ">> \o key[2] \o <<".">>

\* draftEditorial: the signal sentence is forced into the headline
draftEditorial(norm) ==
    [headline  |-> [buildHeadline(DATASET, norm) EXCEPT !.context = SIGNAL_SENTENCE],
     editorial |-> buildEditorial(DATASET, norm)]

\* one entry per key of the production document's metrics, null for a
\* metric the snapshot lacks
buildMetrics(norm, existingMetrics) ==
    [k \in DOMAIN existingMetrics |->
        IF existingMetrics[k] = None THEN None
        ELSE Some([value |-> extractValue(MetricOf(norm, k))])]

\* existingLatest.metrics?.[key]?.value ?? null
ExistingValue(existingLatest, key) ==
    IF existingLatest.metrics = None THEN None
    ELSE IF key \notin DOMAIN Val(existingLatest.metrics) THEN None
    ELSE IF Val(existingLatest.metrics)[key] = None THEN None
    ELSE Val(Val(existingLatest.metrics)[key]).value

\* prior_release: the prior reference period and, per metric of the
\* snapshot, the production value and the delta (0 when the snapshot has
\* no delta for the key)
buildComparisons(norm, existingLatest) ==
    [prior_release |->
        [reference_period |-> Val(existingLatest.release).reference_period,
         keys |-> [k \in DOMAIN norm.metrics |->
                     IF norm.metrics[k] = None THEN None
                     ELSE Some([value |-> ExistingValue(existingLatest, k),
                                delta |-> IF norm.deltas[k] = None THEN 0
                                          ELSE Val(norm.deltas[k]).display_value])]],
     twelve_month_average |-> norm.comparisons.twelve_month_average,
     trend |-> norm.comparisons.trend]

\* the note is kept, every expectation value is nulled
buildExpectations(existingExpectations) ==
    [note |-> existingExpectations.note,
     values |-> [k \in DOMAIN existingExpectations.values |-> None]]

\* mutant: the period is prepended without looking for it in the ledger
buildHistoryNoCheck(existingHistory, newReferencePeriod) ==
    <<newReferencePeriod>>
    \o SubSeq(existingHistory, 1, IF Len(existingHistory) < HistoryCap - 1
                                  THEN Len(existingHistory) ELSE HistoryCap - 1)

\* mutant: the ledger is cut after the prepended entry and five older ones
buildHistoryKeepsFive(existingHistory, newReferencePeriod) ==
    IF \E i \in DOMAIN existingHistory : existingHistory[i] = newReferencePeriod
    THEN existingHistory
    ELSE <<newReferencePeriod>>
         \o SubSeq(existingHistory, 1, IF Len(existingHistory) < HistoryCap
                                       THEN Len(existingHistory) ELSE HistoryCap)

\* buildHistory on previous_releases: an entry is represented by its date
\* (its label is the month name and year of the date); the new period is
\* prepended and the first four older entries are kept
buildHistory(existingHistory, newReferencePeriod) ==
    IF \E i \in DOMAIN existingHistory : existingHistory[i] = newReferencePeriod
    THEN existingHistory
    ELSE <<newReferencePeriod>>
         \o SubSeq(existingHistory, 1, IF Len(existingHistory) < HistoryCap - 1
                                       THEN Len(existingHistory) ELSE HistoryCap - 1)

\* buildCandidate throws a TypeError on a production document without
\* metrics, release, expectations or history
BuildThrows(existingLatest) ==
    \/ existingLatest.metrics = None
    \/ existingLatest.release = None
    \/ existingLatest.expectations = None
    \/ existingLatest.history = None

\* mutant: the signal of the candidate is set to the signal of the template
buildCandidateResetsSignal(norm, existingLatest) ==
    LET drafted == draftEditorial(norm)
    IN  [dataset           |-> existingLatest.dataset,
         source            |-> existingLatest.source,
         release           |-> Some([reference_period |-> norm.reference_period]),
         headline          |-> drafted.headline,
         signal            |-> Some([state |-> "decelerating", pressure |-> "tight",
                                     confidence |-> "medium"]),
         metrics           |-> Some(buildMetrics(norm, Val(existingLatest.metrics))),
         comparisons       |-> Some(buildComparisons(norm, existingLatest)),
         expectations      |-> Some(buildExpectations(Val(existingLatest.expectations))),
         editorial         |-> drafted.editorial,
         history           |-> Some(buildHistory(Val(existingLatest.history), norm.reference_period)),
         methodology_notes |-> existingLatest.methodology_notes,
         meta              |-> None]

buildCandidate(norm, existingLatest) ==
    LET drafted == draftEditorial(norm)
    IN  [dataset           |-> existingLatest.dataset,
         source            |-> existingLatest.source,
         release           |-> Some([reference_period |-> norm.reference_period]),
         headline          |-> drafted.headline,
         signal            |-> existingLatest.signal,
         metrics           |-> Some(buildMetrics(norm, Val(existingLatest.metrics))),
         comparisons       |-> Some(buildComparisons(norm, existingLatest)),
         expectations      |-> Some(buildExpectations(Val(existingLatest.expectations))),
         editorial         |-> drafted.editorial,
         history           |-> Some(buildHistory(Val(existingLatest.history), norm.reference_period)),
         methodology_notes |-> existingLatest.methodology_notes,
         meta              |-> None]

\* the newest period with a normalized file, None when there is none
detectLatestPeriod ==
    LET periods == {p \in DOMAIN normalized : normalized[p] # None}
    IN  IF periods = {} THEN None
        ELSE Some(CHOOSE p \in periods : \A q \in periods : q <= p)

WriterIdle == [pc |-> "idle", candidate |-> None, exit |-> "none"]

\* main of write_update.mjs up to the assembled candidate; newPeriod is the
\* NEW_PERIOD environment variable
WriterBuild(newPeriod) ==
    /\ writer.pc = "idle"
    /\ LET period == IF newPeriod = None THEN detectLatestPeriod ELSE newPeriod
       IN  IF period = None
           THEN writer' = [WriterIdle EXCEPT !.exit = "1"]
           ELSE IF ReadFile(normalized, Val(period)) = None
           THEN writer' = [WriterIdle EXCEPT !.exit = "1"]
           ELSE IF BuildThrows(production)
           THEN writer' = [WriterIdle EXCEPT !.exit = "1"]
           ELSE writer' = [pc |-> "write",
                           candidate |-> Some(buildCandidate(Val(normalized[Val(period)]),
                                                             production)),
                           exit |-> "none"]
    /\ UNCHANGED <<files, fetch, review, editor>>

\* main: await fs.writeFile(candidatePath, ...)
WriterWrite ==
    /\ writer.pc = "write"
    /\ candidate' = writer.candidate
    /\ editor' = 0
    /\ writer' = [WriterIdle EXCEPT !.exit = "0"]
    /\ UNCHANGED <<raw, normalized, production, reviewFile, fetch, review>>

(***************************************************************************)
(* tools/fetch_bls_jobs.mjs                                                *)
(***************************************************************************)
NoHeadline == [title |-> <<>>, summary |-> <<>>, context |-> <<>>]

\* the artifact {meta, narrative, series} of the tool: none of the fields
\* of a release document
Artifact(dataSource) ==
    [dataset           |-> None,
     source            |-> None,
     release           |-> None,
     headline          |-> NoHeadline,
     signal            |-> None,
     metrics           |-> None,
     comparisons       |-> None,
     expectations      |-> None,
     editorial         |-> NoEditorial,
     history           |-> None,
     methodology_notes |-> None,
     meta              |-> Some([dataSource |-> dataSource])]

\* main of the tool: writeFileSync(OUTPUT_PATH, ...) with live data, or with
\* fallback data when the call to the source failed
ToolRun(dataSource) ==
    /\ production' = Artifact(dataSource)
    /\ UNCHANGED <<raw, normalized, candidate, reviewFile, fetch, writer, review, editor>>

(***************************************************************************)
(* Manual remediation: an editor replaces one text field of the candidate  *)
(***************************************************************************)
\* number of manual edits a candidate may receive
MaxEdits == 1

HeadlineFields == {"title", "summary", "context"}
EditorialFields == {"what_changed", "what_didnt", "why_it_matters", "revision_note",
                    "editor_note"}
AuditedFields == HeadlineFields \cup EditorialFields

\* the signal sentence with one character changed
SignalLowerCase ==
    <<"s", "i", "g", "n", "a", "l", ":", " ", "d", "e", "c", "e", "l", "e", "r", "a", "t", "i", "n", "g", " ", "a", "n", "d", " ", "t", "i", "g", "h", "t", ".">>
\* the signal sentence ending in an exclamation point
SignalExclaimed ==
    <<"S", "i", "g", "n", "a", "l", ":", " ", "d", "e", "c", "e", "l", "e", "r", "a", "t", "i", "n", "g", " ", "a", "n", "d", " ", "t", "i", "g", "h", "t", "!">>
HardBannedText ==
    <<"H", "i", "r", "i", "n", "g", " ", "s", "l", "o", "w", "e", "d", " ", "EMDASH", " ", "s", "h", "a", "r", "p", "l", "y", ";", " ", "w", "a", "g", "e", "s", " ", "h", "e", "l", "d", "!", "!">>
SoftBannedText ==
    <<"N", "o", "t", "a", "b", "l", "y", " ", "r", "o", "b", "u", "s", "t", " ", "a", "n", "d", " ", "R", "O", "B", "U", "S", "T", " ", "h", "i", "r", "i", "n", "g", ".">>
InterpretiveText ==
    <<"T", "h", "e", " ", "r", "e", "p", "o", "r", "t", " ", "I", "m", "p", "l", "i", "e", "s", " ", "w", "e", "a", "k", "e", "r", " ", "h", "i", "r", "i", "n", "g", ".">>
EditTexts == {<<>>, SignalLowerCase, SignalExclaimed, HardBannedText, SoftBannedText,
              InterpretiveText}

FieldText(doc, field) ==
    IF field \in HeadlineFields THEN doc.headline[field] ELSE doc.editorial[field]

SetField(doc, field, text) ==
    IF field \in HeadlineFields
    THEN [doc EXCEPT !.headline = [doc.headline EXCEPT ![field] = text]]
    ELSE [doc EXCEPT !.editorial = [doc.editorial EXCEPT ![field] = text]]

ManualEdit(field, text) ==
    /\ candidate # None
    /\ editor < MaxEdits
    /\ FieldText(Val(candidate), field) # text
    /\ candidate' = Some(SetField(Val(candidate), field, text))
    /\ editor' = editor + 1
    /\ UNCHANGED <<raw, normalized, production, reviewFile, fetch, writer, review>>

(***************************************************************************)
(* The production document the pipeline starts from                        *)
(***************************************************************************)
InitialTitle ==
    <<"J", "o", "b", "s", " ", "R", "e", "p", "o", "r", "t">>

LockedSignal == [state |-> "decelerating", pressure |-> "tight", confidence |-> "medium"]

InitialProduction(metrics) ==
    [dataset           |-> Some("jobs"),
     source            |-> Some([series_ids |-> Keys]),
     release           |-> Some([reference_period |-> PeriodOfIdx(Idx(FirstNew) - 1)]),
     headline          |-> [title |-> InitialTitle, summary |-> FALLBACK_TEXT,
                            context |-> REQUIRED_SIGNAL_SENTENCE],
     signal            |-> Some(LockedSignal),
     metrics           |-> Some(metrics),
     comparisons       |-> None,
     expectations      |-> Some([note |-> "consensus",
                                 values |-> [k \in Keys |-> Some(HistRaw(k, FirstNew))]]),
     editorial         |-> [NoEditorial EXCEPT !.what_changed = FALLBACK_TEXT],
     history           |-> Some([i \in 1..HistoryCap |-> PeriodOfIdx(Idx(FirstNew) - i)]),
     methodology_notes |-> Some("notes"),
     meta              |-> None]

(***************************************************************************)
(* Bounded inputs                                                          *)
(***************************************************************************)
\* raw values the source reports for a newly published month
RawChoices(k) == IF k = "payrolls" THEN {3400 * FP + 400, 999 * FP + 500}
                 ELSE {4250, 4000}

\* the value the pipeline's source reports for the new month
PipelineValue(k) == IF k = "payrolls" THEN 3400 * FP + 400 ELSE 4250

\* one series of a response whose latest month is p with value v: an older
\* month, the annual entry of p's year, then p itself
SeriesData(k, p, v) ==
    <<[year |-> Year(monthsAgo(p, 1)), period |-> Month(monthsAgo(p, 1)), value |-> HistRaw(k, p)],
      [year |-> Year(p), period |-> AnnualPeriod, value |-> HistRaw(k, p)],
      [year |-> Year(p), period |-> Month(p), value |-> v]>>

AnnualOnly(k, p) == <<[year |-> Year(p), period |-> AnnualPeriod, value |-> HistRaw(k, p)]>>

Responses ==
    \* the call fails or returns a non-success status
    {[status |-> "REQUEST_NOT_PROCESSED", series |-> [k \in Keys |-> None]]}
    \* aligned series, any of them possibly not returned
    \cup {[status |-> "REQUEST_SUCCEEDED",
           series |-> [k \in Keys |-> IF vals[k] = None THEN None
                                      ELSE Some(SeriesData(k, p, Val(vals[k])))]] :
            p \in NewPeriods,
            vals \in {f \in [Keys -> {None} \cup {Some(v) : v \in UNION {RawChoices(k) : k \in Keys}}] :
                        \A k \in Keys : f[k] = None \/ Val(f[k]) \in RawChoices(k)}}
    \* one series a month behind the others
    \cup {[status |-> "REQUEST_SUCCEEDED",
           series |-> [k \in Keys |-> IF k = "payrolls"
                                      THEN Some(SeriesData(k, p, 3400 * FP))
                                      ELSE Some(SeriesData(k, monthsAgo(p, 1), 4100))]] :
            p \in NewPeriods}
    \* one series with its annual entry only
    \cup {[status |-> "REQUEST_SUCCEEDED",
           series |-> [k \in Keys |-> IF k = "payrolls"
                                      THEN Some(SeriesData(k, p, 3400 * FP))
                                      ELSE Some(AnnualOnly(k, p))]] :
            p \in NewPeriods}

\* how many of the oldest months of the window the history may lack, and
\* which of the most recent months may be missing on top of that
LeadChoices == {0, MaxNulls - 1, MaxNulls, MaxNulls + 1}
GapOffsets == {1, 2}

\* a full history: the 23 months before the first new one
FullHistory == [lead |-> 0, gaps |-> {}]

PresentHistory(lead, gaps) ==
    {p \in HistPeriods : /\ Idx(FirstNew) - Idx(p) <= MonthsNeeded - lead
                         /\ (Idx(FirstNew) - Idx(p)) \notin gaps}

\* what the production document may hold for a metric: no entry, a null
\* value, or a number (not always at display precision: the document is
\* hand-maintained)
DefaultProductionMetrics ==
    [k \in Keys |-> Some([value |-> Some(IF k = "payrolls" THEN 2000 * FP ELSE 4000)])]

ProductionMetricChoices ==
    {DefaultProductionMetrics,
     [k \in Keys |-> IF k = "payrolls" THEN None ELSE Some([value |-> None])],
     [k \in Keys |-> IF k = "payrolls" THEN Some([value |-> None]) ELSE None],
     [k \in Keys |-> Some([value |-> Some(IF k = "payrolls" THEN 2000 * FP + 600 ELSE 4160)])]}

\* the histories and production documents the fetch stage is started on
FetchConfigs ==
    {[lead |-> l, gaps |-> g, hole |-> {}, pm |-> DefaultProductionMetrics] :
        l \in LeadChoices, g \in SUBSET GapOffsets}
    \cup {[lead |-> FullHistory.lead, gaps |-> FullHistory.gaps, hole |-> {}, pm |-> pm] :
            pm \in ProductionMetricChoices}
    \cup {[lead |-> FullHistory.lead, gaps |-> g, hole |-> {"payrolls"},
           pm |-> DefaultProductionMetrics] : g \in {{}, {2}}}

\* the history of a configuration: a backfill, and when the configuration
\* has a hole the month before the first new one ingested by a fetch run
\* whose response lacked the series of the hole
HistoryNormalized(c) ==
    LET last == monthsAgo(FirstNew, 1)
        S == PresentHistory(c.lead, c.gaps)
        backfill == BootstrapNormalized(S \ (IF c.hole = {} THEN {} ELSE {last}))
        lp == [year |-> Year(last), period |-> Month(last),
               values |-> [k \in Keys |-> IF k \in c.hole THEN None
                                          ELSE Some(HistRaw(k, last))]]
    IN  IF c.hole = {} THEN backfill
        ELSE WriteFile(backfill, last,
                       computeNormalized("jobs", backfill, lp, Keys, InitialProduction(c.pm),
                                         [k \in Keys |-> None]))

(***************************************************************************)
(* The fetch stage on its own                                              *)
(***************************************************************************)
InitFetch ==
    \E c \in FetchConfigs :
        /\ normalized = HistoryNormalized(c)
        /\ raw = BootstrapRaw(PresentHistory(c.lead, c.gaps))
        /\ production = InitialProduction(c.pm)
        /\ candidate = None
        /\ reviewFile = None
        /\ fetch = FetchIdle
        /\ writer = WriterIdle
        /\ review = ReviewIdle
        /\ editor = 0

NextFetch ==
    \/ \E resp \in Responses : FetchRun(resp)
    \/ FetchSaveRaw
    \/ FetchSaveNormalized

SpecFetch == InitFetch /\ [][NextFetch]_vars

(***************************************************************************)
(* The publish gate on candidates the writer assembled, with manual edits  *)
(***************************************************************************)
\* the values of the snapshots the candidates are assembled from
GateValues ==
    {[k \in Keys |-> Some(PipelineValue(k))]}

FetchedSnapshot(dir, vals) ==
    computeNormalized("jobs", dir,
                      [year |-> Year(FirstNew), period |-> Month(FirstNew), values |-> vals],
                      Keys, InitialProduction(DefaultProductionMetrics),
                      [k \in Keys |-> None])

InitGate ==
    \E vals \in GateValues :
        LET history == BootstrapNormalized(HistPeriods)
            snapshot == FetchedSnapshot(history, vals)
        IN  /\ normalized = WriteFile(history, FirstNew, snapshot)
            /\ raw = BootstrapRaw(HistPeriods \cup {FirstNew})
            /\ production = InitialProduction(DefaultProductionMetrics)
            /\ candidate = Some(buildCandidate(snapshot, production))
            /\ reviewFile = None
            /\ fetch = FetchExit("0", "ingested", FirstNew)
            /\ writer = [WriterIdle EXCEPT !.exit = "0"]
            /\ review = ReviewIdle
            /\ editor = 0

\* the editor works on the candidate between review runs
NextGate ==
    \/ review.pc = "idle" /\ \E field \in AuditedFields, text \in EditTexts :
                                 ManualEdit(field, text)
    \/ ReviewLoad
    \/ ReviewWriteReport
    \/ ReviewAct

SpecGate == InitGate /\ [][NextGate]_vars

(***************************************************************************)
(* The pipeline                                                            *)
(***************************************************************************)
Init ==
    /\ normalized = BootstrapNormalized(HistPeriods)
    /\ raw = BootstrapRaw(HistPeriods)
    /\ production = InitialProduction(DefaultProductionMetrics)
    /\ candidate = None
    /\ reviewFile = None
    /\ fetch = FetchIdle
    /\ writer = WriterIdle
    /\ review = ReviewIdle
    /\ editor = 0

\* the responses of the source in the pipeline: a failed call and the new
\* month with all series or with the payrolls series only
PipelineResponses ==
    {[status |-> "REQUEST_NOT_PROCESSED", series |-> [k \in Keys |-> None]]}
    \cup {[status |-> "REQUEST_SUCCEEDED",
           series |-> [k \in Keys |-> IF k \in ks
                                      THEN Some(SeriesData(k, p, PipelineValue(k)))
                                      ELSE None]] :
            p \in NewPeriods, ks \in {Keys, {"payrolls"}}}

\* the stages are run one at a time: the workflow runs them in sequence
\* and one pipeline run per dataset is in flight
NoStageInFlight == fetch.pc = "idle" /\ writer.pc = "idle" /\ review.pc = "idle"

Next ==
    \/ NoStageInFlight /\ \E resp \in PipelineResponses : FetchRun(resp)
    \/ FetchSaveRaw
    \/ FetchSaveNormalized
    \/ NoStageInFlight /\ \E newPeriod \in {None} \cup {Some(p) : p \in NewPeriods} :
                             WriterBuild(newPeriod)
    \/ WriterWrite
    \/ NoStageInFlight /\ ReviewLoad
    \/ ReviewWriteReport
    \/ ReviewAct
    \/ NoStageInFlight /\ \E dataSource \in {"live", "fallback"} : ToolRun(dataSource)

Spec == Init /\ [][Next]_vars

(***************************************************************************)
(* Properties of the fetch stage                                           *)
(***************************************************************************)
\* display_value of key in the persisted snapshot of period p, None when
\* the snapshot or the metric within it is missing
PersistedDisplay(dir, p, key) ==
    IF p \notin DOMAIN dir \/ dir[p] = None THEN None
    ELSE IF Val(dir[p]).metrics[key] = None THEN None
    ELSE Some(Val(Val(dir[p]).metrics[key]).display_value)

\* the period i calendar months before p
MonthsBefore(p, i) == PeriodOfIdx(Idx(p) - i)

\* the step of a fetch run that writes the normalized snapshot
WritesNormalized == fetch.pc = "saveNormalized" /\ fetch'.pc = "idle"

\* C1: every trend of a normalized snapshot the fetch stage writes for
\* period P has exactly 24 entries, the last is the current display value
\* and, for i in 1..23, the entry i places before the last is the display
\* value of the key in the persisted snapshot of P-i, null when that
\* snapshot or the metric in it is missing
C1_TrendAligned ==
    [][WritesNormalized =>
        LET P == fetch.yyyymm
            snap == Val(normalized'[P])
        IN  \A key \in Keys :
              IsSome(snap.metrics[key]) =>
                /\ IsSome(snap.comparisons.trend[key])
                /\ LET t == Val(snap.comparisons.trend[key])
                   IN  /\ Len(t) = 24
                       /\ t[24] = Some(Val(snap.metrics[key]).display_value)
                       /\ \A i \in 1..23 :
                            t[24 - i] = PersistedDisplay(normalized, MonthsBefore(P, i), key)]_vars

\* a snapshot was ingested whose trend has the oldest month present, a
\* month of the previous years present and the month before P missing
C1_Witness ==
    /\ fetch.reason = "ingested"
    /\ \E key \in Keys :
         /\ IsSome(Val(normalized[fetch.yyyymm]).comparisons.trend[key])
         /\ LET t == Val(Val(normalized[fetch.yyyymm]).comparisons.trend[key])
            IN  t[1] # None /\ t[23] = None /\ t[24] # None

\* no non-null entry of the sequence is followed by a null entry
NullsArePrefix(t) == \A i, j \in DOMAIN t : (i < j /\ t[i] # None) => t[j] # None

\* C2 as stated: in every written snapshot the nulls of every trend are a
\* contiguous prefix, whatever prior snapshots and metrics are missing
C2_NullsPrefixAlways ==
    [][WritesNormalized =>
        \A key \in Keys :
          IsSome(Val(normalized'[fetch.yyyymm]).comparisons.trend[key]) =>
            NullsArePrefix(Val(Val(normalized'[fetch.yyyymm]).comparisons.trend[key]))]_vars

\* the missing values of key among P-1 .. P-23 are the oldest ones
MissingAreOldest(dir, P, key) ==
    \A i, j \in 1..23 :
        (i < j /\ PersistedDisplay(dir, MonthsBefore(P, i), key) = None)
            => PersistedDisplay(dir, MonthsBefore(P, j), key) = None

\* C2 amended: the nulls of a trend are a contiguous prefix whenever the
\* months among P-1 .. P-23 whose snapshot or metric is missing are the
\* oldest months of the window
C2_NullsPrefixWhenOldestMissing ==
    [][WritesNormalized =>
        \A key \in Keys :
          (/\ IsSome(Val(normalized'[fetch.yyyymm]).comparisons.trend[key])
           /\ MissingAreOldest(normalized, fetch.yyyymm, key))
            => NullsArePrefix(Val(Val(normalized'[fetch.yyyymm]).comparisons.trend[key]))]_vars

\* a snapshot was ingested over a history that lacks its oldest months only
C2_Witness ==
    /\ fetch.reason = "ingested"
    /\ \E key \in Keys :
         /\ IsSome(Val(normalized[fetch.yyyymm]).comparisons.trend[key])
         /\ MissingAreOldest(normalized, fetch.yyyymm, key)
         /\ PersistedDisplay(normalized, MonthsBefore(fetch.yyyymm, 23), key) = None
         /\ PersistedDisplay(normalized, MonthsBefore(fetch.yyyymm, 1), key) # None

\* the number of months among P-1 .. P-23 without a value of key
MissingCount(dir, P, key) ==
    Cardinality({i \in 1..23 : PersistedDisplay(dir, MonthsBefore(P, i), key) = None})

\* C3: a run some trend of which has more than 12 nulls exits non-zero
\* with neither the raw nor the normalized snapshot of its period written,
\* and a run all trends of which have at most 12 nulls is not stopped by
\* the guardrail
C3_Guardrail ==
    /\ fetch.reason = "guardrail" =>
         /\ fetch.exit = "1"
         /\ ReadFile(raw, fetch.yyyymm) = None
         /\ ReadFile(normalized, fetch.yyyymm) = None
         /\ \E key \in Keys :
              /\ IsSome(Val(fetch.normalizedData).metrics[key])
              /\ MissingCount(normalized, fetch.yyyymm, key) > 12
    /\ fetch.pc \in {"saveRaw", "saveNormalized"} =>
         \A key \in Keys :
           IsSome(Val(fetch.normalizedData).metrics[key])
             => MissingCount(normalized, fetch.yyyymm, key) <= 12

\* the guardrail stopped a run whose trend had 13 nulls
C3_Witness ==
    /\ fetch.reason = "guardrail"
    /\ \E key \in Keys :
         /\ IsSome(Val(fetch.normalizedData).metrics[key])
         /\ MissingCount(normalized, fetch.yyyymm, key) = 13

\* a run with exactly 12 nulls in a trend went on to write its snapshots
C3_WitnessAtLimit ==
    /\ fetch.reason = "ingested"
    /\ \E key \in Keys :
         /\ IsSome(Val(normalized[fetch.yyyymm]).metrics[key])
         /\ MissingCount(normalized, fetch.yyyymm, key) = 12

\* the numeric value the production document holds for key, None when the
\* document has no metrics, lacks the key or holds no number for it
ProductionPrior(doc, key) ==
    IF doc.metrics = None THEN None
    ELSE IF Val(doc.metrics)[key] = None THEN None
    ELSE Val(Val(doc.metrics)[key]).value

\* the step of a fetch run that computes the normalized snapshot
ComputesNormalized == fetch.pc = "idle" /\ fetch'.pc = "saveRaw"

\* C10 as stated: the snapshot a fetch run computes carries, for every
\* metric key with a numeric prior value in the production document, the
\* delta round(current display value - prior, precision), and carries no
\* delta for a key the production document lacks or holds no number for
C10_DeltaFromProduction ==
    [][ComputesNormalized =>
        LET nd == Val(fetch'.normalizedData)
        IN  \A key \in Keys :
              IsSome(nd.metrics[key]) =>
                LET m == Val(nd.metrics[key])
                    prior == ProductionPrior(production, key)
                IN  IF IsSome(prior)
                    THEN /\ IsSome(nd.deltas[key])
                         /\ Val(nd.deltas[key]).display_value
                              = RoundTo(m.display_value - Val(prior), m.precision)
                    ELSE nd.deltas[key] = None]_vars

\* every file of the directory before the step is the same after it
FilesKept(dir, dirAfter) ==
    \A p \in DOMAIN dir : dir[p] # None => (p \in DOMAIN dirAfter /\ dirAfter[p] = dir[p])

\* the step in which a fetch run finds the latest period of the response
StartsFetch == fetch.pc = "idle" /\ fetch' # fetch /\ fetch'.yyyymm # 0

\* C12: no step of a fetch run replaces or removes an existing raw or
\* normalized file, whatever its period, and a run for a period whose
\* normalized snapshot exists ends without writing any file
C12_WriteOnce ==
    [][/\ FilesKept(raw, raw')
       /\ FilesKept(normalized, normalized')
       /\ (StartsFetch /\ ReadFile(normalized, fetch'.yyyymm) # None) =>
             /\ fetch'.pc = "idle"
             /\ fetch'.exit = "0"
             /\ files' = files]_vars

\* a second run for the period a first run ingested has ended
C12_Witness ==
    /\ fetch.reason = "no_new_data"
    /\ fetch.yyyymm \in NewPeriods
    /\ ReadFile(raw, fetch.yyyymm) # None
    /\ ReadFile(normalized, fetch.yyyymm) # None

\* the months among P-1 .. P-11 with a persisted value of key
RecentPresent(dir, P, key) ==
    {i \in 1..11 : PersistedDisplay(dir, MonthsBefore(P, i), key) # None}

\* the sum of the persisted values of key over the months P-i .. P-11
RECURSIVE RecentSum(_, _, _, _)
RecentSum(dir, P, key, i) ==
    IF i > 11 THEN 0
    ELSE (IF i \in RecentPresent(dir, P, key)
          THEN Val(PersistedDisplay(dir, MonthsBefore(P, i), key)) ELSE 0)
         + RecentSum(dir, P, key, i + 1)

\* a is sum / n rounded half up to a multiple of unit
IsRoundedMean(a, sum, n, unit) ==
    /\ a % unit = 0
    /\ (2 * n * a) - (n * unit) <= 2 * sum
    /\ 2 * sum < (2 * n * a) + (n * unit)

Deciding == review.pc = "act"
Decision == Val(review.review).final_status

\* C4: on a PASS decision the promotion is one step after which the
\* candidate file is gone and the production document holds exactly the
\* content the candidate file had, the run exits 0, and production changes
\* in no other step of the gate, so it is never absent or partly written
C4_PromotionIsOneRename ==
    [][/\ (Deciding /\ Decision = "PASS") =>
            /\ candidate # None
            /\ production' = Val(candidate)
            /\ candidate' = None
            /\ review'.exit = "0"
       /\ production' # production =>
            /\ Deciding /\ Decision = "PASS"
            /\ production' = Val(candidate)]_vars

\* a candidate carrying a manual edit with soft-listed words was promoted
C4_Witness ==
    /\ review.exit = "0"
    /\ candidate = None
    /\ reviewFile # None /\ Val(reviewFile).final_status = "PASS"
    /\ production.editorial.editor_note = SoftBannedText
    /\ production.release = Some([reference_period |-> FirstNew])

\* C5: on a FAIL decision, whatever its reason, the candidate file and the
\* production document are the same after the run as before and the run
\* exits non-zero
C5_FailLeavesFiles ==
    [][/\ (Deciding /\ Decision = "FAIL") =>
            /\ candidate' = candidate
            /\ production' = production
            /\ review'.exit = "1"
       /\ (review.pc \in {"idle", "writeReview"} /\ review' # review) =>
            /\ candidate' = candidate
            /\ production' = production]_vars

\* a run failed by the external audit has ended with the candidate kept
C5_Witness ==
    /\ review.exit = "1"
    /\ candidate # None
    /\ reviewFile # None
    /\ Val(reviewFile).final_status = "FAIL"
    /\ Val(reviewFile).fail_reason.kind = "ai_reason"

\* C7 as stated: a loaded candidate whose headline.context is not the
\* required signal sentence is decided FAIL with a reason holding the
\* expected and the actual string, and it is not promoted
C7_SignalMismatchReported ==
    [][(Deciding /\ Val(review.candidate).headline.context # REQUIRED_SIGNAL_SENTENCE) =>
          /\ Decision = "FAIL"
          /\ Val(review.review).fail_reason.expected = REQUIRED_SIGNAL_SENTENCE
          /\ Val(review.review).fail_reason.actual = Val(review.candidate).headline.context
          /\ production' = production
          /\ candidate' = candidate]_vars

\* occurrences of a character in the eight audited fields of a document
FieldCount(doc, c) ==
    CountChar(doc.headline.title, c) + CountChar(doc.headline.summary, c)
    + CountChar(doc.headline.context, c) + CountChar(doc.editorial.what_changed, c)
    + CountChar(doc.editorial.what_didnt, c) + CountChar(doc.editorial.why_it_matters, c)
    + CountChar(doc.editorial.revision_note, c) + CountChar(doc.editorial.editor_note, c)

HardBanned == {[pattern |-> "EMDASH", name |-> "em-dash"],
               [pattern |-> ";", name |-> "semicolon"],
               [pattern |-> "!", name |-> "exclamation point"]}

\* C8: a loaded candidate with an em-dash, semicolon or exclamation point
\* in an audited field is decided FAIL, and for each such pattern the
\* linter record has exactly one error, naming the pattern and the number
\* of its occurrences in the eight fields, and no error for other patterns;
\* a candidate without them has no linter error and is not failed by the
\* linter, whatever warnings it gets
C8_LinterErrors ==
    review.pc \in {"writeReview", "act"} =>
        LET cand == Val(review.candidate)
            rec == Val(review.review)
            hit == {h \in HardBanned : FieldCount(cand, h.pattern) > 0}
        IN  /\ \A h \in hit :
                  /\ rec.final_status = "FAIL"
                  /\ Cardinality({j \in DOMAIN rec.linter.errors :
                                    rec.linter.errors[j].name = h.name}) = 1
                  /\ \E j \in DOMAIN rec.linter.errors :
                        rec.linter.errors[j] = [name |-> h.name,
                                                count |-> FieldCount(cand, h.pattern)]
            /\ Len(rec.linter.errors) = Cardinality(hit)
            /\ hit = {} => rec.fail_reason.kind # "linter_errors"

\* a candidate with one em-dash, one semicolon and two exclamation points
\* in its editor note was decided
C8_Witness ==
    /\ review.pc = "act"
    /\ Val(review.candidate).editorial.editor_note = HardBannedText
    /\ Len(Val(review.review).linter.errors) = 3
    /\ \E j \in 1..3 : Val(review.review).linter.errors[j]
                         = [name |-> "exclamation point", count |-> 2]

\* a candidate whose only linter hits are soft-listed words passed the gate
\* with its warnings
C8_WitnessWarnings ==
    /\ review.pc = "act"
    /\ Val(review.candidate).editorial.what_didnt = SoftBannedText
    /\ Val(review.review).final_status = "PASS"
    /\ \E j \in DOMAIN Val(review.review).linter.warnings :
          Val(review.review).linter.warnings[j] = [name |-> "robust", count |-> 2]

\* the forbidden phrases occurring, in any case, in a field of the
\* editorial object
PhrasesIn(doc) ==
    {j \in DOMAIN forbidden :
        \E f \in EditorialFields : Includes(toLowerCase(doc.editorial[f]), forbidden[j])}

\* C9 as stated: a loaded candidate with a forbidden phrase in any field of
\* its editorial object is decided FAIL with a reason naming a phrase that
\* occurs
C9_ForbiddenPhraseFails ==
    (review.pc \in {"writeReview", "act"} /\ PhrasesIn(Val(review.candidate)) # {}) =>
        /\ Val(review.review).final_status = "FAIL"
        /\ \E j \in PhrasesIn(Val(review.candidate)) :
              Val(review.review).fail_reason.phrase = forbidden[j]

(***************************************************************************)
(* Properties of the pipeline                                              *)
(***************************************************************************)
\* C6 as stated: the production document changes only in the promotion
\* step of a review run that decided PASS
C6_OnlyPromotionWritesProduction ==
    [][production' # production =>
          /\ Deciding /\ Decision = "PASS"
          /\ candidate # None
          /\ production' = Val(candidate)]_vars

(***************************************************************************)
(* The fetch stage on the inflation dataset                                *)
(***************************************************************************)
\* how many months the source newly publishes for the inflation dataset
MaxNewInflation == 2
InflationNewPeriods == {PeriodOfIdx(Idx(FirstNew) + k) : k \in 0..(MaxNewInflation - 1)}

InitialInflationProduction ==
    [InitialProduction(DefaultProductionMetrics) EXCEPT
        !.dataset = Some("inflation"),
        !.source = Some([series_ids |-> INFLATION_RAW_SERIES]),
        !.metrics = Some([k \in DOMAIN INFLATION_DERIVED_METRICS |->
                            Some([value |-> Some(IF k = "cpi_mom" THEN 300 ELSE 3100)])])]

\* one index series of a response whose latest month is p with level v: the
\* months 12 and 1 before p unless dropped, the annual entry, then p itself
InflationSeriesData(k, p, v, dropped) ==
    (IF 12 \in dropped THEN <<>>
     ELSE <<[year |-> Year(monthsAgo(p, 12)), period |-> Month(monthsAgo(p, 12)),
             value |-> IndexValue(k, monthsAgo(p, 12))]>>)
    \o (IF 1 \in dropped THEN <<>>
        ELSE <<[year |-> Year(monthsAgo(p, 1)), period |-> Month(monthsAgo(p, 1)),
                value |-> IndexValue(k, monthsAgo(p, 1))]>>)
    \o <<[year |-> Year(p), period |-> AnnualPeriod, value |-> IndexValue(k, p)],
         [year |-> Year(p), period |-> Month(p), value |-> v]>>

\* the levels the source may report for the new month
IndexChoices(k, p) == {IndexValue(k, p), IndexValue(k, monthsAgo(p, 12)) + 11178}

\* what a response may lack: for each index series the months before p that
\* are dropped, or the whole series
InflationShapes ==
    {[cpi_all_items |-> Some({1}),  cpi_core |-> Some({})],
     [cpi_all_items |-> Some({12}), cpi_core |-> Some({})],
     [cpi_all_items |-> Some({}),   cpi_core |-> Some({12})],
     [cpi_all_items |-> Some({}),   cpi_core |-> None]}

\* the responses whose latest month is p: complete ones with any of the
\* levels, and incomplete ones
InflationResponsesFor(p) ==
    {[status |-> "REQUEST_SUCCEEDED",
      series |-> [k \in INFLATION_RAW_SERIES |->
                    Some(InflationSeriesData(k, p, IF k = "cpi_all_items" THEN v
                                                   ELSE IndexValue(k, p), {}))]] :
        v \in IndexChoices("cpi_all_items", p)}
    \cup {[status |-> "REQUEST_SUCCEEDED",
           series |-> [k \in INFLATION_RAW_SERIES |->
                         IF shape[k] = None THEN None
                         ELSE Some(InflationSeriesData(k, p, IndexValue(k, p),
                                                       Val(shape[k])))]] :
            shape \in InflationShapes}

InflationResponses ==
    {[status |-> "REQUEST_NOT_PROCESSED", series |-> [k \in INFLATION_RAW_SERIES |-> None]]}
    \cup UNION {InflationResponsesFor(p) : p \in InflationNewPeriods}

InitInflation ==
    /\ raw = BootstrapInflationRaw(HistPeriods)
    /\ normalized = BootstrapInflationNormalized(HistPeriods)
    /\ production = InitialInflationProduction
    /\ candidate = None
    /\ reviewFile = None
    /\ fetch = FetchIdle
    /\ writer = WriterIdle
    /\ review = ReviewIdle
    /\ editor = 0

\* the source's latest month never moves back: a response does not end
\* before a month that was already ingested
SourceAdvances(resp) ==
    \A k \in DOMAIN resp.series : resp.series[k] # None =>
        \A i \in DOMAIN Val(resp.series[k]) :
            LET d == Val(resp.series[k])[i]
            IN  (i = Len(Val(resp.series[k]))) =>
                    \A q \in DOMAIN raw :
                        raw[q] # None => q <= periodToYYYYMM(d.year, d.period)

NextInflation ==
    \/ \E resp \in InflationResponses : SourceAdvances(resp) /\ FetchRun(resp)
    \/ FetchSaveRaw
    \/ FetchSaveNormalized

SpecInflation == InitInflation /\ [][NextInflation]_vars

(***************************************************************************)
(* The fetch stage on either dataset                                       *)
(***************************************************************************)
InitDatasets == InitFetch \/ InitInflation

NextDatasets ==
    \/ DATASET = "jobs" /\ \E resp \in Responses : FetchRun(resp)
    \/ DATASET = "inflation" /\ \E resp \in InflationResponses :
                                    SourceAdvances(resp) /\ FetchRun(resp)
    \/ FetchSaveRaw
    \/ FetchSaveNormalized

SpecDatasets == InitDatasets /\ [][NextDatasets]_vars

(***************************************************************************)
(* The history ledger: buildHistory applied to the ledger of the           *)
(* production document, once per released period                           *)
(***************************************************************************)
\* how many periods are released
MaxLedgerPeriods == 6
LedgerPeriods == {PeriodOfIdx(Idx(FirstNew) + k) : k \in 0..(MaxLedgerPeriods - 1)}

\* the ledgers the production document starts with: none, one entry, and
\* the five months before the first new one
InitialLedgers ==
    {<<>>, <<PeriodOfIdx(Idx(FirstNew) - 1)>>,
     [i \in 1..HistoryCap |-> PeriodOfIdx(Idx(FirstNew) - i)]}

Ledger == Val(production.history)

InitLedger ==
    \E ledger \in InitialLedgers :
        /\ normalized = BootstrapNormalized(HistPeriods)
        /\ raw = BootstrapRaw(HistPeriods)
        /\ production = [InitialProduction(DefaultProductionMetrics) EXCEPT
                            !.history = Some(ledger)]
        /\ candidate = None
        /\ reviewFile = None
        /\ fetch = FetchIdle
        /\ writer = WriterIdle
        /\ review = ReviewIdle
        /\ editor = 0

\* history: buildHistory(existingLatest.history, normalized.reference_period)
AppendPeriod(newReferencePeriod) ==
    /\ production' = [production EXCEPT
                         !.history = Some(buildHistory(Ledger, newReferencePeriod))]
    /\ UNCHANGED <<raw, normalized, candidate, reviewFile, fetch, writer, review, editor>>

NextLedger == \E p \in LedgerPeriods : AppendPeriod(p)

SpecLedger == InitLedger /\ [][NextLedger]_vars

(***************************************************************************)
(* The three stages of the pipeline on production documents with           *)
(* different signals                                                       *)
(***************************************************************************)
\* the signals of the production document: the one in place, a capitalised
\* state, an unlisted state, and a signal without state
SignalChoices ==
    {LockedSignal,
     [state |-> "Steady", pressure |-> "loosening", confidence |-> "high"],
     [state |-> "mixed", pressure |-> "tight", confidence |-> "low"],
     [state |-> "", pressure |-> "neutral", confidence |-> "medium"]}

InitStages ==
    \E signal \in SignalChoices :
        /\ normalized = BootstrapNormalized(HistPeriods)
        /\ raw = BootstrapRaw(HistPeriods)
        /\ production = [InitialProduction(DefaultProductionMetrics) EXCEPT
                            !.signal = Some(signal)]
        /\ candidate = None
        /\ reviewFile = None
        /\ fetch = FetchIdle
        /\ writer = WriterIdle
        /\ review = ReviewIdle
        /\ editor = 0

NextStages ==
    \/ NoStageInFlight /\ \E resp \in PipelineResponses : FetchRun(resp)
    \/ FetchSaveRaw
    \/ FetchSaveNormalized
    \/ NoStageInFlight /\ \E newPeriod \in {None} \cup {Some(p) : p \in NewPeriods} :
                             WriterBuild(newPeriod)
    \/ WriterWrite
    \/ NoStageInFlight /\ ReviewLoad
    \/ ReviewWriteReport
    \/ ReviewAct

SpecStages == InitStages /\ [][NextStages]_vars

(***************************************************************************)
(* The writer on snapshots with the deltas of the delta-only sentences     *)
(***************************************************************************)
\* a delta as computeNormalized stores it
StructuredDelta(delta_raw, precision) ==
    [raw_value |-> delta_raw, display_value |-> RoundTo(delta_raw, precision),
     precision |-> precision]

\* the raw deltas of a snapshot, in thousandths: none, zero, one that
\* rounds to zero at the display precision, a rise and a fall
PayrollsDeltas == {None} \cup {Some(StructuredDelta(v, 0)) : v \in {0, 400, 1400 * FP, (0 - 12) * FP}}
WagesDeltas == {None} \cup {Some(StructuredDelta(v, 1)) : v \in {40, 300, 0 - 1250}}
CpiMomDeltas == {None} \cup {Some(StructuredDelta(v, 1)) : v \in {0, 40, 100, 0 - 200}}

\* the snapshot of the first new month of a jobs dataset that follows the
\* wages series too, with the given deltas
JobsSentenceSnapshot(payrolls, wages) ==
    LET base == FetchedSnapshot(BootstrapNormalized(HistPeriods),
                                [k \in Keys |-> Some(PipelineValue(k))])
        def == METRIC_DEFINITIONS["average_hourly_earnings_yoy"]
        wage == [raw_value |-> 38000, display_value |-> DisplayValue(38000, def),
                 precision |-> def.precision]
        deltas == ("average_hourly_earnings_yoy" :> wages)
                  @@ [base.deltas EXCEPT !["payrolls"] = payrolls]
    IN  [reference_period |-> base.reference_period,
         metrics |-> ("average_hourly_earnings_yoy" :> Some(wage)) @@ base.metrics,
         deltas |-> deltas,
         comparisons |->
            [prior_release |-> deltas,
             twelve_month_average |-> ("average_hourly_earnings_yoy" :> Some(wage.display_value))
                                      @@ base.comparisons.twelve_month_average,
             trend |-> ("average_hourly_earnings_yoy"
                            :> Some([i \in 1..TREND_LENGTH |-> Some(wage.display_value)]))
                       @@ base.comparisons.trend]]

\* the snapshot of the first new month of the inflation dataset, with the
\* given delta of the month-over-month change
InflationSentenceSnapshot(cpi_mom) ==
    LET seriesData == [k \in INFLATION_RAW_SERIES |->
                         Some(InflationSeriesData(k, FirstNew, IndexValue(k, FirstNew), {}))]
        base == computeNormalized("inflation", BootstrapInflationNormalized(HistPeriods),
                                  Val(findLatestPeriod(seriesData)), INFLATION_RAW_SERIES,
                                  InitialInflationProduction, seriesData)
        deltas == [base.deltas EXCEPT !["cpi_mom"] = cpi_mom]
    IN  [base EXCEPT !.deltas = deltas, !.comparisons.prior_release = deltas]

InitSentences ==
    /\ \/ \E payrolls \in PayrollsDeltas, wages \in WagesDeltas :
            /\ production = InitialProduction(DefaultProductionMetrics)
            /\ normalized = WriteFile(BootstrapNormalized(HistPeriods), FirstNew,
                                      JobsSentenceSnapshot(payrolls, wages))
            /\ raw = BootstrapRaw(HistPeriods \cup {FirstNew})
       \/ \E cpi_mom \in CpiMomDeltas :
            /\ production = InitialInflationProduction
            /\ normalized = WriteFile(BootstrapInflationNormalized(HistPeriods), FirstNew,
                                      InflationSentenceSnapshot(cpi_mom))
            /\ raw = BootstrapInflationRaw(HistPeriods \cup {FirstNew})
    /\ candidate = None
    /\ reviewFile = None
    /\ fetch = FetchExit("0", "ingested", FirstNew)
    /\ writer = WriterIdle
    /\ review = ReviewIdle
    /\ editor = 0

NextSentences ==
    \/ \E newPeriod \in {None} \cup {Some(p) : p \in NewPeriods \cup {monthsAgo(FirstNew, 1)}} :
          WriterBuild(newPeriod)
    \/ WriterWrite

SpecSentences == InitSentences /\ [][NextSentences]_vars

(***************************************************************************)
(* The writer on snapshots with the level and the delta of the dual-path   *)
(* sentence                                                                *)
(***************************************************************************)
\* the unemployment rate of a snapshot, in thousandths: none, a rate of
\* zero and a rate of 4.1 percent
UnemploymentLevels ==
    {None} \cup {Some([raw_value |-> v, display_value |-> v, precision |-> 1]) : v \in {0, 4100}}

\* its delta: none, zero, one that rounds to zero, a rise and a fall
UnemploymentDeltas ==
    {None} \cup {Some(StructuredDelta(v, 1)) : v \in {0, 40, 100, 0 - 200}}

\* the snapshot of the first new month of the jobs dataset with the given
\* payrolls delta and unemployment rate and delta
UnemploymentSnapshot(payrolls, level, delta) ==
    LET base == FetchedSnapshot(BootstrapNormalized(HistPeriods),
                                [k \in Keys |-> Some(PipelineValue(k))])
        deltas == [base.deltas EXCEPT !["payrolls"] = payrolls,
                                      !["unemployment_rate"] = delta]
    IN  [base EXCEPT !.metrics["unemployment_rate"] = level,
                     !.deltas = deltas,
                     !.comparisons.prior_release = deltas]

InitUnemployment ==
    /\ \E payrolls \in {None, Some(StructuredDelta(1400 * FP, 0))},
          level \in UnemploymentLevels, delta \in UnemploymentDeltas :
            normalized = WriteFile(BootstrapNormalized(HistPeriods), FirstNew,
                                   UnemploymentSnapshot(payrolls, level, delta))
    /\ production = InitialProduction(DefaultProductionMetrics)
    /\ raw = BootstrapRaw(HistPeriods \cup {FirstNew})
    /\ candidate = None
    /\ reviewFile = None
    /\ fetch = FetchExit("0", "ingested", FirstNew)
    /\ writer = WriterIdle
    /\ review = ReviewIdle
    /\ editor = 0

InitTexts == InitSentences \/ InitUnemployment

SpecTexts == InitTexts /\ [][NextSentences]_vars

(***************************************************************************)
(* The fetch stage on payloads that repeat a month                         *)
(***************************************************************************)
\* a point of month q of a series
MonthPoint(q, v) == [year |-> Year(q), period |-> Month(q), value |-> v]

\* the responses whose latest month is p and in which the all-items series
\* reports a month twice: the latest month or the month a year before, with
\* the same level or with another one
RepeatedResponsesFor(p) ==
    {[status |-> "REQUEST_SUCCEEDED",
      series |-> [k \in INFLATION_RAW_SERIES |->
                    Some(IF k = "cpi_all_items"
                         THEN <<MonthPoint(q, IndexValue(k, q) + shift)>>
                              \o InflationSeriesData(k, p, IndexValue(k, p), {})
                         ELSE InflationSeriesData(k, p, IndexValue(k, p), {}))]] :
        q \in {p, monthsAgo(p, 12)}, shift \in {0, 1000}}

LookupResponses ==
    InflationResponses \cup UNION {RepeatedResponsesFor(p) : p \in InflationNewPeriods}

NextLookup ==
    \/ \E resp \in LookupResponses : SourceAdvances(resp) /\ FetchRun(resp)
    \/ FetchSaveRaw
    \/ FetchSaveNormalized

SpecLookup == InitInflation /\ [][NextLookup]_vars

(***************************************************************************)
(* The fetch stage of both datasets, also on a jobs production document    *)
(* without series identifiers                                              *)
(***************************************************************************)
\* source of a production document that names no series: no source, or a
\* source with an empty series_ids
NoSeriesSources == {None, Some([series_ids |-> {}])}

InitNoSeriesIds ==
    /\ \E source \in NoSeriesSources :
            production = [InitialProduction(DefaultProductionMetrics) EXCEPT !.source = source]
    /\ normalized = BootstrapNormalized(HistPeriods)
    /\ raw = BootstrapRaw(HistPeriods)
    /\ candidate = None
    /\ reviewFile = None
    /\ fetch = FetchIdle
    /\ writer = WriterIdle
    /\ review = ReviewIdle
    /\ editor = 0

InitAborts == InitDatasets \/ InitNoSeriesIds

SpecAborts == InitAborts /\ [][NextDatasets]_vars

(***************************************************************************)
(* The fetch stage with a write of the normalized snapshot that may fail   *)
(***************************************************************************)
\* saveData: the second fs.writeFile throws, or the process is stopped
\* before it; main().catch exits 1
FetchSaveNormalizedFails ==
    /\ fetch.pc = "saveNormalized"
    /\ fetch' = FetchExit("1", "write_failed", fetch.yyyymm)
    /\ UNCHANGED <<files, writer, review, editor>>

NextInterrupted ==
    \/ NextDatasets
    \/ FetchSaveNormalizedFails

SpecInterrupted == InitDatasets /\ [][NextInterrupted]_vars

(***************************************************************************)
(* One review run and one writer run on the same dataset, step by step     *)
(***************************************************************************)
\* the candidate file before the two runs start: the writer's draft as it
\* was written, or the draft after the editor emptied the field what_changed
InitConcurrent ==
    \E vals \in GateValues, edited \in BOOLEAN :
        LET history == BootstrapNormalized(HistPeriods)
            snapshot == FetchedSnapshot(history, vals)
            draft == buildCandidate(snapshot, InitialProduction(DefaultProductionMetrics))
        IN  /\ normalized = WriteFile(history, FirstNew, snapshot)
            /\ raw = BootstrapRaw(HistPeriods \cup {FirstNew})
            /\ production = InitialProduction(DefaultProductionMetrics)
            /\ candidate = Some(IF edited THEN SetField(draft, "what_changed", <<>>)
                                          ELSE draft)
            /\ reviewFile = None
            /\ fetch = FetchExit("0", "ingested", FirstNew)
            /\ writer = WriterIdle
            /\ review = ReviewIdle
            /\ editor = 0

\* the two processes share the files only: every await of one run is a point
\* where the other run may take its steps
NextConcurrent ==
    \/ writer.exit = "none" /\ \E newPeriod \in {None, Some(monthsAgo(FirstNew, 1)),
                                                   Some(monthsAgo(FirstNew, 2))} :
                                  WriterBuild(newPeriod)
    \/ WriterWrite
    \/ review.exit = "none" /\ ReviewLoad
    \/ ReviewWriteReport
    \/ ReviewAct

SpecConcurrent == InitConcurrent /\ [][NextConcurrent]_vars

(***************************************************************************)
(* The writer followed by the review gate, on the snapshots of the          *)
(* sentences and of both datasets                                          *)
(***************************************************************************)
\* one writer run, then one review run on the candidate it wrote
NextDrafts ==
    \/ writer.exit = "none" /\ \E newPeriod \in {None, Some(monthsAgo(FirstNew, 1))} :
                                  WriterBuild(newPeriod)
    \/ WriterWrite
    \/ writer.exit = "0" /\ review.exit = "none" /\ ReviewLoad
    \/ ReviewWriteReport
    \/ ReviewAct

SpecDrafts == InitTexts /\ [][NextDrafts]_vars

(***************************************************************************)
(* The fetch stage followed by the writer, one stage at a time             *)
(***************************************************************************)
NextWriter ==
    \/ NoStageInFlight /\ \E resp \in Responses : FetchRun(resp)
    \/ FetchSaveRaw
    \/ FetchSaveNormalized
    \/ NoStageInFlight /\ \E newPeriod \in {None} \cup {Some(p) : p \in NewPeriods} :
                             WriterBuild(newPeriod)
    \/ WriterWrite

SpecWriter == InitFetch /\ [][NextWriter]_vars

(***************************************************************************)
(* Properties of the fetch stage on the inflation dataset                  *)
(***************************************************************************)
\* the raw snapshot of a period holds a monthly point of the index series
\* for the month
HasIndexPoint(rawSnapshot, indexKey, yyyymm) ==
    /\ rawSnapshot[indexKey] # None
    /\ \E i \in DOMAIN Val(rawSnapshot[indexKey]) :
          LET d == Val(rawSnapshot[indexKey])[i]
          IN  d.year = Year(yyyymm) /\ d.period = Month(yyyymm)

\* the reference period of a derived metric: 12 months back for a
\* year-over-year change, 1 month back for a month-over-month change
ReferencePeriod(key, P) ==
    MonthsBefore(P, IF INFLATION_DERIVED_METRICS[key].computation = "yoy" THEN 12 ELSE 1)

\* both index values a derived metric needs are in the raw snapshot
InputsPresent(rawSnapshot, key, P) ==
    /\ HasIndexPoint(rawSnapshot, INFLATION_DERIVED_METRICS[key].source_index, P)
    /\ HasIndexPoint(rawSnapshot, INFLATION_DERIVED_METRICS[key].source_index,
                     ReferencePeriod(key, P))

\* a persisted snapshot that lacks a metric leaves null at its position in
\* the trend of that metric in every persisted snapshot of a later period
OmittedCarriesNull ==
    \A Q \in DOMAIN normalized : \A i \in 1..(TREND_LENGTH - 1) :
        LET P == PeriodOfIdx(Idx(Q) + i)
        IN  (normalized[Q] # None /\ P \in DOMAIN normalized /\ normalized[P] # None) =>
              \A key \in DOMAIN INFLATION_DERIVED_METRICS :
                (/\ Val(normalized[Q]).metrics[key] = None
                 /\ Val(normalized[P]).comparisons.trend[key] # None) =>
                    Val(Val(normalized[P]).comparisons.trend[key])[TREND_LENGTH - i] = None

\* C14: in the normalized snapshot an inflation fetch run writes for period
\* P, a derived metric is absent (its entry is missing, it is not stored as
\* zero) exactly when the index value of P or of its reference period (P-12
\* for year-over-year, P-1 for month-over-month) is missing from the series
\* of the response; the other metrics are computed; and the trend of the
\* metric in every snapshot of a later period has null at the position of P
C14_DerivedMetricOmission ==
    [][/\ WritesNormalized =>
            LET P == fetch.yyyymm
                snap == Val(normalized'[P])
                source == Val(raw[P])
            IN  \A key \in DOMAIN INFLATION_DERIVED_METRICS :
                  /\ ~InputsPresent(source, key, P) =>
                        /\ snap.metrics[key] = None
                        /\ snap.deltas[key] = None
                        /\ snap.comparisons.trend[key] = None
                  /\ InputsPresent(source, key, P) => snap.metrics[key] # None
       /\ OmittedCarriesNull']_vars

\* a snapshot lacking one metric and holding another was written, and so was
\* the snapshot of the next month, whose trend of the lacking metric has
\* null for the month before and a number for its own month
C14_Witness ==
    \E Q \in DOMAIN normalized : \E key, other \in DOMAIN INFLATION_DERIVED_METRICS :
        LET P == PeriodOfIdx(Idx(Q) + 1)
        IN  /\ normalized[Q] # None
            /\ Val(normalized[Q]).metrics[key] = None
            /\ Val(normalized[Q]).metrics[other] # None
            /\ P \in DOMAIN normalized
            /\ normalized[P] # None
            /\ Val(normalized[P]).comparisons.trend[key] # None
            /\ LET t == Val(Val(normalized[P]).comparisons.trend[key])
               IN  t[TREND_LENGTH - 1] = None /\ t[TREND_LENGTH] # None

\* a snapshot was written from a response without the series of the core
\* index: the metric of that index is absent, the others are present
C14_WitnessNoSeries ==
    /\ fetch.reason = "ingested"
    /\ Val(raw[fetch.yyyymm])["cpi_core"] = None
    /\ Val(normalized[fetch.yyyymm]).metrics["core_yoy"] = None
    /\ Val(normalized[fetch.yyyymm]).metrics["cpi_yoy"] # None

\* the raw values the rounding of a direct metric is checked on, in
\* thousandths: every multiple of 0.005 from -0.1 up to MaxDirect * 0.005
MaxDirect == 200
DirectInputs == {5 * k : k \in (0 - 20)..MaxDirect}

\* the value of the monthly point of a series for a month in a raw snapshot
IndexPoint(rawSnapshot, indexKey, yyyymm) ==
    LET data == Val(rawSnapshot[indexKey])
    IN  data[CHOOSE i \in DOMAIN data :
                data[i].year = Year(yyyymm) /\ data[i].period = Month(yyyymm)].value

\* d is a multiple of 0.1 and d - 0.05 <= (current / reference - 1) * 100 < d + 0.05
IsRoundedChange(d, current, reference) ==
    /\ d % 100 = 0
    /\ ((d \div 10) - 5) * reference <= (current - reference) * 10000
    /\ (current - reference) * 10000 < ((d \div 10) + 5) * reference

\* C15: display values are rounded half-up. In a written snapshot of the jobs
\* dataset the display value of a metric is its raw value (the value of the
\* response) times the scale, rounded half-up at the metric's precision; in
\* one of the inflation dataset it is (current / reference - 1) * 100 of
\* the two index levels of the response, rounded half-up at precision 1.
\* The rounding of a direct metric is also checked for every definition of
\* the jobs dataset over the bounded inputs, and 326.030 / 314.852 gives 3.6
C15_DisplayRoundHalfUp ==
    [][WritesNormalized =>
        LET P == fetch.yyyymm
            snap == Val(normalized'[P])
            source == Val(raw[P])
        IN  /\ DATASET = "jobs" =>
                  \A key \in Keys : snap.metrics[key] # None =>
                      LET mt == Val(snap.metrics[key])
                          def == METRIC_DEFINITIONS[key]
                      IN  /\ mt.raw_value = IndexPoint(source, key, P)
                          /\ IsRoundedMean(mt.display_value, mt.raw_value * def.scaleNum,
                                           def.scaleDen, FP \div Pow10(def.precision))
            /\ DATASET = "inflation" =>
                  \A key \in DOMAIN INFLATION_DERIVED_METRICS : snap.metrics[key] # None =>
                      LET mt == Val(snap.metrics[key])
                          index == INFLATION_DERIVED_METRICS[key].source_index
                      IN  /\ mt.raw_value = IndexPoint(source, index, P)
                          /\ IsRoundedChange(mt.display_value, mt.raw_value,
                                             IndexPoint(source, index, ReferencePeriod(key, P)))
            /\ \A key \in DOMAIN METRIC_DEFINITIONS : \A rv \in DirectInputs :
                  LET def == METRIC_DEFINITIONS[key]
                  IN  IsRoundedMean(DisplayValue(rv, def), rv * def.scaleNum,
                                    def.scaleDen, FP \div Pow10(def.precision))
            /\ ChangePercent(326030, 314852, 1) = 3600]_vars

\* the snapshot of a month with the index level 326.030, 314.852 a year
\* before, was written with a year-over-year change of 3.6
C15_Witness ==
    /\ fetch.reason = "ingested"
    /\ DATASET = "inflation"
    /\ Val(normalized[fetch.yyyymm]).metrics["cpi_yoy"] # None
    /\ LET mt == Val(Val(normalized[fetch.yyyymm]).metrics["cpi_yoy"])
       IN  mt.raw_value = 326030 /\ mt.display_value = 3600
    /\ IndexPoint(Val(raw[fetch.yyyymm]), "cpi_all_items", MonthsBefore(fetch.yyyymm, 12)) = 314852

\* a snapshot of the jobs dataset was written whose payrolls value 999.5
\* is displayed as 1000 and whose unemployment rate 4.25 as 4.3
C15_WitnessDirect ==
    /\ fetch.reason = "ingested"
    /\ DATASET = "jobs"
    /\ \A key \in Keys : Val(normalized[fetch.yyyymm]).metrics[key] # None
    /\ Val(Val(normalized[fetch.yyyymm]).metrics["payrolls"]).raw_value = 999 * FP + 500
    /\ Val(Val(normalized[fetch.yyyymm]).metrics["payrolls"]).display_value = 1000 * FP
    /\ Val(Val(normalized[fetch.yyyymm]).metrics["unemployment_rate"]).raw_value = 4250
    /\ Val(Val(normalized[fetch.yyyymm]).metrics["unemployment_rate"]).display_value = 4300

(***************************************************************************)
(* Properties of the history ledger                                        *)
(***************************************************************************)
NoDuplicateDates(ledger) ==
    \A i, j \in DOMAIN ledger : ledger[i] = ledger[j] => i = j

\* C16: appending a period whose date is in the ledger returns the ledger
\* unchanged, appending a period twice gives what appending it once gives,
\* and the ledger, which starts without duplicates, never has two entries
\* of the same date
C16_LedgerIdempotent ==
    /\ NoDuplicateDates(Ledger)
    /\ \A p \in LedgerPeriods :
          /\ (\E i \in DOMAIN Ledger : Ledger[i] = p) => buildHistory(Ledger, p) = Ledger
          /\ buildHistory(buildHistory(Ledger, p), p) = buildHistory(Ledger, p)
          /\ NoDuplicateDates(buildHistory(Ledger, p))

\* a full ledger of released periods that holds the newest released period
\* below its first entry: appending that period again changes nothing
C16_Witness ==
    /\ Len(Ledger) = HistoryCap
    /\ \A i \in DOMAIN Ledger : Ledger[i] \in LedgerPeriods
    /\ \E i \in 2..Len(Ledger) : \A p \in LedgerPeriods : p <= Ledger[i]

\* the ledger after the periods of a sequence were appended one by one
RECURSIVE AppendAll(_, _)
AppendAll(ledger, periods) ==
    IF periods = <<>> THEN ledger
    ELSE AppendAll(buildHistory(ledger, Head(periods)), Tail(periods))

Reversed(s) == [i \in DOMAIN s |-> s[Len(s) + 1 - i]]

StrictlyDecreasing(ledger) ==
    \A i \in DOMAIN ledger : i > 1 => ledger[i - 1] > ledger[i]

\* the sequences of six distinct periods, and those in increasing order
SixDistinct ==
    {s \in [1..(HistoryCap + 1) -> LedgerPeriods] : \A i, j \in DOMAIN s : s[i] = s[j] => i = j}

SixIncreasing ==
    {SortedMonths(S) : S \in {T \in SUBSET LedgerPeriods : Cardinality(T) = HistoryCap + 1}}

\* the five most recent of six appended periods, newest first
FiveMostRecent(s) == SubSeq(Reversed(s), 1, HistoryCap)

\* C17 as stated: the ledger has at most 5 entries and, whichever 6
\* distinct periods are appended to it, it then holds the 5 appended last,
\* newest first, with strictly decreasing dates
C17_CapAndOrderAnyAppends ==
    /\ Len(Ledger) <= HistoryCap
    /\ \A s \in SixDistinct :
          /\ AppendAll(Ledger, s) = FiveMostRecent(s)
          /\ StrictlyDecreasing(AppendAll(Ledger, s))

\* C17, amended: the ledger has at most 5 entries and, when 6 distinct
\* periods none of which is in the ledger are appended in increasing date
\* order, it then holds the 5 most recent of them, newest first, with
\* strictly decreasing dates
C17_CapAndOrderInDateOrder ==
    /\ Len(Ledger) <= HistoryCap
    /\ \A s \in SixIncreasing :
          (\A i \in DOMAIN s : \A j \in DOMAIN Ledger : Ledger[j] # s[i]) =>
              /\ AppendAll(Ledger, s) = FiveMostRecent(s)
              /\ StrictlyDecreasing(AppendAll(Ledger, s))
              /\ AppendAll(Ledger, s)[1] = s[HistoryCap + 1]

\* six periods were appended in date order to a ledger of five older ones:
\* the ledger holds the five newest periods, newest first
C17_Witness ==
    /\ Len(Ledger) = HistoryCap
    /\ StrictlyDecreasing(Ledger)
    /\ \A p \in LedgerPeriods : p <= Ledger[1]
    /\ \A i \in DOMAIN Ledger : Ledger[i] \in LedgerPeriods

(***************************************************************************)
(* Properties of the writer                                                *)
(***************************************************************************)
\* the step of a writer run that writes the candidate file
WritesCandidate == writer.pc = "write" /\ writer'.pc = "idle"

\* the normalized snapshot a written candidate was assembled from
SnapshotOf(cand) == Val(normalized[Val(cand.release).reference_period])

\* C11 as stated: in a candidate the writer writes, a key whose delta the
\* snapshot omits has no prior_release delta of 0, and a key whose metric
\* the snapshot omits has no metric value of 0
C11_OmittedNeverZero ==
    [][WritesCandidate =>
        LET cand == Val(candidate')
            norm == SnapshotOf(cand)
        IN  \A key \in Keys :
              /\ (norm.deltas[key] = None
                  /\ Val(cand.comparisons).prior_release.keys[key] # None)
                    => Val(Val(cand.comparisons).prior_release.keys[key]).delta # 0
              /\ (norm.metrics[key] = None /\ Val(cand.metrics)[key] # None)
                    => Val(Val(cand.metrics)[key]).value # Some(0)]_vars

\* C18: the context field of the headline of a written candidate is the
\* signal sentence of the (state, pressure) of the production document's
\* signal: the entry of the table for a listed pair, the generic sentence
\* built from the two words otherwise, whatever the headline held before
C18_SignalSentenceFromTable ==
    [][WritesCandidate =>
        Val(candidate').headline.context = getSignalSentence(production.signal)]_vars

\* C19: a written candidate has the dataset, source, signal and
\* methodology notes of the production document it was assembled from, and
\* no step of the fetch stage, the writer or the review stage, promotions
\* included, changes the signal of the production document
C19_LockedFieldsPreserved ==
    [][/\ WritesCandidate =>
            /\ Val(candidate').dataset = production.dataset
            /\ Val(candidate').source = production.source
            /\ Val(candidate').signal = production.signal
            /\ Val(candidate').methodology_notes = production.methodology_notes
       /\ production'.signal = production.signal]_vars

\* a candidate for the new period was promoted to a production document
\* whose signal is not the one of the template
C19_Witness ==
    /\ review.exit = "0"
    /\ candidate = None
    /\ Val(production.release).reference_period = FirstNew
    /\ production.signal = Some([state |-> "Steady", pressure |-> "loosening",
                                 confidence |-> "high"])

(***************************************************************************)
(* Properties of the delta-only sentences                                  *)
(***************************************************************************)
\* the display value of the delta of a key in a snapshot, 0 when the
\* snapshot has no delta for the key
DisplayDelta(norm, key) ==
    IF key \notin DOMAIN norm.deltas \/ norm.deltas[key] = None THEN 0
    ELSE Val(norm.deltas[key]).display_value

\* the sentences of some display deltas, as the templates print them
ExpectedPayrollsSentence ==
    [d \in {0, 1000 * FP, 1400 * FP, (0 - 12) * FP} |->
        IF d = 1000 * FP
        THEN <<"N", "o", "n", "f", "a", "r", "m", " ", "p", "a", "y", "r", "o", "l", "l", "s", " ", "i", "n", "c", "r", "e", "a", "s", "e", "d", " ", "b", "y", " ", "1", ",", "0", "0", "0", ".">>
        ELSE IF d = 1400 * FP
        THEN <<"N", "o", "n", "f", "a", "r", "m", " ", "p", "a", "y", "r", "o", "l", "l", "s", " ", "i", "n", "c", "r", "e", "a", "s", "e", "d", " ", "b", "y", " ", "1", ",", "4", "0", "0", ".">>
        ELSE IF d = (0 - 12) * FP
        THEN <<"N", "o", "n", "f", "a", "r", "m", " ", "p", "a", "y", "r", "o", "l", "l", "s", " ", "d", "e", "c", "l", "i", "n", "e", "d", " ", "b", "y", " ", "1", "2", ".">>
        ELSE <<>>]

ExpectedWagesSentence ==
    [d \in {0, 300, 0 - 1200} |->
        IF d = 300
        THEN <<"A", "v", "e", "r", "a", "g", "e", " ", "h", "o", "u", "r", "l", "y", " ", "e", "a", "r", "n", "i", "n", "g", "s", " ", "i", "n", "c", "r", "e", "a", "s", "e", "d", " ", "b", "y", " ", "0", ".", "3", " ", "p", "e", "r", "c", "e", "n", "t", ".">>
        ELSE IF d = 0 - 1200
        THEN <<"A", "v", "e", "r", "a", "g", "e", " ", "h", "o", "u", "r", "l", "y", " ", "e", "a", "r", "n", "i", "n", "g", "s", " ", "d", "e", "c", "l", "i", "n", "e", "d", " ", "b", "y", " ", "1", ".", "2", " ", "p", "e", "r", "c", "e", "n", "t", ".">>
        ELSE <<>>]

ExpectedCpiMomSentence ==
    [d \in {0, 100, 0 - 200} |->
        IF d = 100
        THEN <<"M", "o", "n", "t", "h", "l", "y", " ", "p", "r", "i", "c", "e", "s", " ", "r", "o", "s", "e", " ", "b", "y", " ", "0", ".", "1", " ", "p", "e", "r", "c", "e", "n", "t", ".">>
        ELSE IF d = 0 - 200
        THEN <<"M", "o", "n", "t", "h", "l", "y", " ", "p", "r", "i", "c", "e", "s", " ", "f", "e", "l", "l", " ", "b", "y", " ", "0", ".", "2", " ", "p", "e", "r", "c", "e", "n", "t", ".">>
        ELSE <<>>]

\* a delta-only sentence: subject, verb of the direction of the delta,
\* magnitude and tail; none for a zero delta
DeltaSentence(subject, rising, falling, magnitude, tail, d) ==
    IF d = 0 THEN <<>>
    ELSE subject \o <<" ">> \o (IF d > 0 THEN rising ELSE falling) \o <<" ">>
         \o magnitude \o tail

PayrollsSentenceFor(d) ==
    DeltaSentence(<<"N", "o", "n", "f", "a", "r", "m", " ", "p", "a", "y", "r", "o", "l", "l", "s">>,
                  <<"i", "n", "c", "r", "e", "a", "s", "e", "d", " ", "b", "y">>, <<"d", "e", "c", "l", "i", "n", "e", "d", " ", "b", "y">>,
                  LocaleText(Abs(d)), <<".">>, d)

WagesSentenceFor(d) ==
    DeltaSentence(<<"A", "v", "e", "r", "a", "g", "e", " ", "h", "o", "u", "r", "l", "y", " ", "e", "a", "r", "n", "i", "n", "g", "s">>,
                  <<"i", "n", "c", "r", "e", "a", "s", "e", "d", " ", "b", "y">>, <<"d", "e", "c", "l", "i", "n", "e", "d", " ", "b", "y">>,
                  ToFixed1(Abs(d)), <<" ", "p", "e", "r", "c", "e", "n", "t", ".">>, d)

CpiMomSentenceFor(d) ==
    DeltaSentence(<<"M", "o", "n", "t", "h", "l", "y", " ", "p", "r", "i", "c", "e", "s">>,
                  <<"r", "o", "s", "e", " ", "b", "y">>, <<"f", "e", "l", "l", " ", "b", "y">>,
                  ToFixed1(Abs(d)), <<" ", "p", "e", "r", "c", "e", "n", "t", ".">>, d)

RisingVerbs == {<<"i", "n", "c", "r", "e", "a", "s", "e", "d", " ", "b", "y">>,
                <<"r", "o", "s", "e", " ", "b", "y">>}
FallingVerbs == {<<"d", "e", "c", "l", "i", "n", "e", "d", " ", "b", "y">>,
                 <<"f", "e", "l", "l", " ", "b", "y">>}

\* a sentence that prints a magnitude of zero
StatesZero(sentence) ==
    \/ /\ Len(sentence) >= 6
       /\ SubSeq(sentence, Len(sentence) - 5, Len(sentence)) = <<" ", "b", "y", " ", "0", ".">>
    \/ Includes(sentence, <<" ", "b", "y", " ", "0", ".", "0", " ">>)

\* a sentence built for a delta: none for a zero or absent delta, else one
\* with a verb of the delta's direction only and a magnitude that is not zero
AgreesWithDelta(sentence, d) ==
    /\ d = 0 <=> sentence = <<>>
    /\ ~StatesZero(sentence)
    /\ d > 0 => /\ \E v \in RisingVerbs : Includes(sentence, v)
                /\ \A v \in FallingVerbs : ~Includes(sentence, v)
    /\ d < 0 => /\ \E v \in FallingVerbs : Includes(sentence, v)
                /\ \A v \in RisingVerbs : ~Includes(sentence, v)

\* C20: the payrolls, wages and month-over-month sentences of a written
\* candidate follow the display value of the delta of the snapshot: a
\* positive delta gives the rising verb and a negative one the falling
\* verb, each with the absolute value of the delta, and an absent delta or
\* one that is zero at display precision gives no sentence
C20_DeltaSentences ==
    [][WritesCandidate =>
        LET cand == Val(candidate')
            norm == SnapshotOf(cand)
            payrolls == DisplayDelta(norm, "payrolls")
            wages == DisplayDelta(norm, "average_hourly_earnings_yoy")
            cpi_mom == DisplayDelta(norm, "cpi_mom")
        IN  /\ AgreesWithDelta(buildPayrollsSentence(norm), payrolls)
            /\ AgreesWithDelta(buildWagesSentence(norm), wages)
            /\ AgreesWithDelta(buildCpiMomSentence(norm), cpi_mom)
            /\ DATASET = "jobs" =>
                  cand.editorial.what_changed
                    = JoinOrFallback(<<PayrollsSentenceFor(payrolls),
                                       buildUnemploymentSentence(norm),
                                       WagesSentenceFor(wages)>>)
            /\ DATASET = "inflation" =>
                  cand.editorial.what_changed
                    = JoinOrFallback(<<CpiMomSentenceFor(cpi_mom)>>)
            /\ \A d \in DOMAIN ExpectedPayrollsSentence :
                  PayrollsSentenceFor(d) = ExpectedPayrollsSentence[d]
            /\ \A d \in DOMAIN ExpectedWagesSentence :
                  WagesSentenceFor(d) = ExpectedWagesSentence[d]
            /\ \A d \in DOMAIN ExpectedCpiMomSentence :
                  CpiMomSentenceFor(d) = ExpectedCpiMomSentence[d]]_vars

\* a candidate was written from a snapshot whose payrolls delta is negative
\* and whose wages delta is zero at display precision only
C20_Witness ==
    /\ writer.exit = "0"
    /\ candidate # None
    /\ DATASET = "jobs"
    /\ DisplayDelta(SnapshotOf(Val(candidate)), "payrolls") < 0
    /\ SnapshotOf(Val(candidate)).deltas["average_hourly_earnings_yoy"] # None
    /\ Val(SnapshotOf(Val(candidate)).deltas["average_hourly_earnings_yoy"]).raw_value > 0
    /\ DisplayDelta(SnapshotOf(Val(candidate)), "average_hourly_earnings_yoy") = 0

\* a candidate of the inflation dataset was written from a snapshot whose
\* month-over-month delta is negative
C20_WitnessInflation ==
    /\ writer.exit = "0"
    /\ candidate # None
    /\ DATASET = "inflation"
    /\ DisplayDelta(SnapshotOf(Val(candidate)), "cpi_mom") < 0

(***************************************************************************)
(* Properties of the dual-path sentence and of the composed fields         *)
(***************************************************************************)
\* the two forms of the unemployment sentence
UnemploymentDeltaForm(d) ==
    <<"T", "h", "e", " ", "u", "n", "e", "m", "p", "l", "o", "y", "m", "e", "n", "t", " ", "r", "a", "t", "e", " ">>
    \o (IF d > 0 THEN <<"i", "n", "c", "r", "e", "a", "s", "e", "d", " ", "b", "y">> ELSE <<"d", "e", "c", "l", "i", "n", "e", "d", " ", "b", "y">>)
    \o <<" ">> \o NumberText(Abs(d)) \o <<" ", "p", "e", "r", "c", "e", "n", "t", "a", "g", "e", " ", "p", "o", "i", "n", "t", ".">>

UnemploymentLevelForm(v) ==
    <<"T", "h", "e", " ", "u", "n", "e", "m", "p", "l", "o", "y", "m", "e", "n", "t", " ", "r", "a", "t", "e", " ", "s", "t", "a", "n", "d", "s", " ", "a", "t", " ">>
    \o NumberText(v) \o <<" ", "p", "e", "r", "c", "e", "n", "t", ".">>

\* the sentence of a level and a delta: the delta form for a delta that is
\* not zero, else the level form for any level, else none
DualPathSentence(level, delta) ==
    IF delta # None /\ Val(delta).display_value # 0
    THEN UnemploymentDeltaForm(Val(delta).display_value)
    ELSE IF level # None THEN UnemploymentLevelForm(Val(level).display_value)
    ELSE <<>>

\* C21: the unemployment sentence of a written jobs candidate is the delta
\* form when the snapshot has a delta that is not zero, else the level form
\* when the snapshot has a level, whatever its value, and there is no
\* unemployment sentence only when there is neither
C21_DualPathUnemployment ==
    [][(WritesCandidate /\ DATASET = "jobs") =>
        LET cand == Val(candidate')
            norm == SnapshotOf(cand)
            sentence == DualPathSentence(MetricOf(norm, "unemployment_rate"),
                                         DeltaOf(norm, "unemployment_rate"))
        IN  /\ buildUnemploymentSentence(norm) = sentence
            /\ cand.editorial.what_changed
                  = JoinOrFallback(<<buildPayrollsSentence(norm), sentence,
                                     buildWagesSentence(norm)>>)]_vars

\* the sentences of the summary and of the what_changed field
SummaryParts(dataset, norm) ==
    IF dataset = "inflation" THEN <<buildCpiSentence(norm), buildCpiMomSentence(norm)>>
    ELSE <<buildPayrollsSentence(norm), buildUnemploymentSentence(norm)>>

ChangedParts(dataset, norm) ==
    IF dataset = "inflation" THEN <<buildCpiSentence(norm), buildCpiMomSentence(norm)>>
    ELSE <<buildPayrollsSentence(norm), buildUnemploymentSentence(norm),
           buildWagesSentence(norm)>>

Available(parts) == SelectSeq(parts, LAMBDA f : f # <<>>)

\* a text field composed of sentences: the available ones in order with one
\* space between two of them, the fallback sentence exactly when none is
\* available
ComposedOf(text, parts) ==
    LET avail == Available(parts)
    IN  IF avail = <<>> THEN text = FALLBACK_TEXT
        ELSE /\ text # FALLBACK_TEXT
             /\ text = JoinTexts(parts, <<" ">>)
             /\ Len(text) = SumSeq([i \in DOMAIN avail |-> Some(Len(avail[i]))])
                              + Len(avail) - 1
             /\ \A i \in DOMAIN avail : Includes(text, avail[i])
             /\ ~Includes(text, <<" ", " ">>)

\* the value a headline is led by is present and not zero: the payrolls
\* delta of a jobs snapshot, the cpi_all_items_yoy level of an inflation one
LeadPresent(dataset, norm) ==
    IF dataset = "inflation" THEN hasValue(extractValue(MetricOf(norm, "cpi_all_items_yoy")))
    ELSE hasValue(extractValue(DeltaOf(norm, "payrolls")))

\* C22 as stated: the summary and what_changed of a written candidate are
\* composed of their sentences, and are the fallback sentence exactly when
\* none of their sentences is available
C22_ComposedFields ==
    [][WritesCandidate =>
        LET cand == Val(candidate')
            norm == SnapshotOf(cand)
        IN  /\ ComposedOf(cand.headline.summary, SummaryParts(DATASET, norm))
            /\ ComposedOf(cand.editorial.what_changed, ChangedParts(DATASET, norm))]_vars

\* C22, amended: what_changed is composed of its sentences; the summary is
\* composed of its sentences when the value the headline is led by is
\* present and not zero, and is the fallback sentence otherwise
C22_ComposedFieldsWithLead ==
    [][WritesCandidate =>
        LET cand == Val(candidate')
            norm == SnapshotOf(cand)
        IN  /\ IF LeadPresent(DATASET, norm)
               THEN ComposedOf(cand.headline.summary, SummaryParts(DATASET, norm))
               ELSE cand.headline.summary = FALLBACK_TEXT
            /\ ComposedOf(cand.editorial.what_changed, ChangedParts(DATASET, norm))]_vars

\* a jobs candidate was written whose summary joins two sentences and whose
\* what_changed is not the fallback sentence
C22_Witness ==
    /\ writer.exit = "0"
    /\ candidate # None
    /\ DATASET = "jobs"
    /\ Len(Available(SummaryParts("jobs", SnapshotOf(Val(candidate))))) = 2
    /\ Val(candidate).headline.summary # FALLBACK_TEXT
    /\ Val(candidate).editorial.what_changed # FALLBACK_TEXT

\* a jobs candidate was written from a snapshot without any sentence
C22_WitnessFallback ==
    /\ writer.exit = "0"
    /\ candidate # None
    /\ DATASET = "jobs"
    /\ Available(ChangedParts("jobs", SnapshotOf(Val(candidate)))) = <<>>
    /\ Val(candidate).editorial.what_changed = FALLBACK_TEXT

\* a jobs candidate was written from a snapshot without payrolls delta and
\* with an unemployment sentence
C22_WitnessNoLead ==
    /\ writer.exit = "0"
    /\ candidate # None
    /\ DATASET = "jobs"
    /\ ~LeadPresent("jobs", SnapshotOf(Val(candidate)))
    /\ buildUnemploymentSentence(SnapshotOf(Val(candidate))) # <<>>

(***************************************************************************)
(* Properties of the audit report                                          *)
(***************************************************************************)
\* a review run that loaded a candidate ends: it promotes or exits 1
EndsReview == review.pc # "idle" /\ review'.pc = "idle"

\* C23: when a review run that loaded a candidate promotes or exits, the
\* report file already holds the record of this run with its final status,
\* PASS or FAIL, the step leaves the report as it is, and a promotion
\* happens under a report of PASS only
C23_ReportBeforeAction ==
    [][EndsReview =>
        /\ review.pc = "act"
        /\ reviewFile # None
        /\ reviewFile = review.review
        /\ Val(reviewFile).final_status \in {"PASS", "FAIL"}
        /\ reviewFile' = reviewFile
        /\ review'.exit = (IF Val(reviewFile).final_status = "PASS" /\ candidate # None
                           THEN "0" ELSE "1")
        /\ production' # production => Val(reviewFile).final_status = "PASS"]_vars

\* a review run has promoted its candidate, with a report of PASS on file
C23_Witness ==
    /\ review.pc = "idle"
    /\ review.exit = "0"
    /\ candidate = None
    /\ reviewFile # None
    /\ Val(reviewFile).final_status = "PASS"

\* a review run has exited 1, with a report of FAIL on file
C23_WitnessFail ==
    /\ review.pc = "idle"
    /\ review.exit = "1"
    /\ candidate # None
    /\ reviewFile # None
    /\ Val(reviewFile).final_status = "FAIL"

(***************************************************************************)
(* Properties of the external audit                                        *)
(***************************************************************************)
\* the checks that need no external call pass on a candidate
DeterministicChecksPass(cand) ==
    /\ Len(runLinter(cand).errors) = 0
    /\ validateSignalSentence(cand).valid
    /\ validateNoInterpretation(cand).valid
    /\ validateNumericConsistency(cand) = <<>>

\* C24: in a review run without credential on a candidate that passes the
\* deterministic checks the final status is PASS and the audit record
\* carries the flag of the skipped audit; in a run whose external audit
\* throws or answers with a status that is neither PASS nor FAIL the final
\* status is FAIL and the run ends with exit 1, production and candidate
\* untouched
C24_ExternalAuditOutcome ==
    [][(review.pc = "act") =>
        LET rec == Val(review.review)
        IN  /\ (review.ai = "no_key" /\ DeterministicChecksPass(Val(review.candidate)))
                  => /\ rec.final_status = "PASS"
                     /\ rec.ai_audit.status = "PASS"
                     /\ rec.ai_audit.flag = "NO_AI_AUDIT"
                     /\ Val(reviewFile).ai_audit.flag = "NO_AI_AUDIT"
            /\ review.ai \in {"throws", "invalid"}
                  => /\ rec.final_status = "FAIL"
                     /\ Val(reviewFile).final_status = "FAIL"
                     /\ review'.exit = "1"
                     /\ production' = production
                     /\ candidate' = candidate]_vars

\* a run without credential has promoted a candidate that passes the
\* deterministic checks
C24_Witness ==
    /\ review.pc = "idle"
    /\ review.exit = "0"
    /\ reviewFile # None
    /\ Val(reviewFile).final_status = "PASS"
    /\ Val(reviewFile).ai_audit.flag = "NO_AI_AUDIT"
    /\ DeterministicChecksPass(production)

\* a run whose external audit failed to answer is about to exit, on a
\* candidate that passes the deterministic checks
C24_WitnessError ==
    /\ review.pc = "act"
    /\ review.ai \in {"throws", "invalid"}
    /\ DeterministicChecksPass(Val(review.candidate))
    /\ Val(review.review).ai_audit.flag = "AI_ERROR"

(***************************************************************************)
(* Properties of the series lookup                                         *)
(***************************************************************************)
\* the lookup of a series has no entry for an annual point, and each of its
\* entries is the value of a monthly point of that month
AnnualNeverInLookup ==
    \A resp \in LookupResponses : \A k \in DOMAIN resp.series :
        /\ \A year \in {Year(q) : q \in AllPeriods} :
              SeriesLookup(resp.series, k, periodToYYYYMM(year, AnnualPeriod)) = None
        /\ \A q \in AllPeriods :
              LET hit == SeriesLookup(resp.series, k, q)
              IN  hit # None =>
                    \E i \in DOMAIN Val(resp.series[k]) :
                        LET d == Val(resp.series[k])[i]
                        IN  /\ d.period # AnnualPeriod
                            /\ periodToYYYYMM(d.year, d.period) = q
                            /\ d.value = Val(hit)

\* a series of the monthly points of a payload reports a month twice with
\* different values
HasConflict(monthly) ==
    \E k \in DOMAIN monthly :
        /\ monthly[k] # None
        /\ \E i, j \in DOMAIN Val(monthly[k]) :
              /\ Val(monthly[k])[i].year = Val(monthly[k])[j].year
              /\ Val(monthly[k])[i].period = Val(monthly[k])[j].period
              /\ Val(monthly[k])[i].value # Val(monthly[k])[j].value

\* C25: no annual point enters the month-to-value map of a series, and a
\* fetch run never goes on to save the snapshots of a payload in which a
\* series reports a month twice with different values
C25_SeriesLookupIntegrity ==
    [][/\ AnnualNeverInLookup
       /\ (fetch.pc = "idle" /\ fetch'.pc = "saveRaw")
             => ~HasConflict(Val(fetch'.rawData))]_vars

(***************************************************************************)
(* Properties of the fatal aborts of the fetch stage                       *)
(***************************************************************************)
\* the months of the monthly points of a returned series
MonthsOf(data) ==
    {periodToYYYYMM(data[i].year, data[i].period) :
        i \in {j \in DOMAIN data : data[j].period # AnnualPeriod}}

\* the latest month of a non-empty set of months
LatestOf(months) == CHOOSE q \in months : \A r \in months : r <= q

\* a fetch run with this response must abort: the jobs production document
\* names no series, the call did not succeed, no series came back, a
\* returned series has no monthly point, or two returned series differ in
\* their latest month
FatalInput(resp) ==
    LET returned == {k \in DOMAIN resp.series : resp.series[k] # None}
    IN  \/ /\ DATASET = "jobs"
           /\ \/ production.source = None
              \/ Val(production.source).series_ids = {}
        \/ resp.status # "REQUEST_SUCCEEDED"
        \/ returned = {}
        \/ \E k \in returned : MonthsOf(Val(resp.series[k])) = {}
        \/ \E k, l \in returned :
              LatestOf(MonthsOf(Val(resp.series[k]))) # LatestOf(MonthsOf(Val(resp.series[l])))

\* C26: a fetch run on a fatal input ends at once with exit 1, and a fetch
\* run that ends with exit 1 has written no raw snapshot and no normalized
\* snapshot and has left the candidate, the production document and the
\* report as they were
C26_FatalAbortWritesNothing ==
    [][/\ \A resp \in Responses \cup InflationResponses :
             (FatalInput(resp) /\ FetchRun(resp))
                => /\ fetch'.pc = "idle"
                   /\ fetch'.exit = "1"
                   /\ fetch'.reason \in {"no_series_ids", "api_error", "no_aligned_period"}
       /\ fetch'.exit = "1"
             => /\ raw' = raw
                /\ normalized' = normalized
                /\ candidate' = candidate
                /\ production' = production
                /\ reviewFile' = reviewFile]_vars

\* a run has aborted because the series disagree on their latest month or
\* a series has no monthly data, and no snapshot of a new month exists
C26_Witness ==
    /\ fetch.exit = "1"
    /\ fetch.reason = "no_aligned_period"
    /\ \A q \in NewPeriods \cup InflationNewPeriods : ReadFile(raw, q) = None
    /\ \A q \in NewPeriods \cup InflationNewPeriods : ReadFile(normalized, q) = None

\* a run has aborted because the production document names no series
C26_WitnessNoSeriesIds ==
    /\ fetch.exit = "1"
    /\ fetch.reason = "no_series_ids"
    /\ raw = BootstrapRaw(HistPeriods)

\* a run has aborted because the call failed, after a month was ingested
C26_WitnessApiError ==
    /\ fetch.exit = "1"
    /\ fetch.reason = "api_error"
    /\ \E q \in NewPeriods \cup InflationNewPeriods : ReadFile(raw, q) # None

(***************************************************************************)
(* Properties of the pair of snapshots of a period                         *)
(***************************************************************************)
\* the periods whose raw and normalized snapshots the fetch stage writes:
\* the months after the backfilled history
IngestedPeriods == NewPeriods \cup InflationNewPeriods

\* C27: when no fetch run is under way, each period after the backfilled
\* history has a raw snapshot if and only if it has a normalized snapshot,
\* and a run that ended with exit 0 because the raw file of its period
\* exists leaves a period that has a normalized snapshot
C27_RawIffNormalized ==
    (fetch.pc = "idle") =>
        /\ \A q \in IngestedPeriods :
              (ReadFile(raw, q) # None) <=> (ReadFile(normalized, q) # None)
        /\ (fetch.exit = "0" /\ fetch.reason = "no_new_data")
              => ReadFile(normalized, fetch.yyyymm) # None

(***************************************************************************)
(* C28: promotion under a concurrent writer run                            *)
(***************************************************************************)
\* the step of a review run that renames the candidate file over production
Promotes == review.pc = "act" /\ review'.pc = "idle" /\ review'.exit = "0"

\* a draft the writer can have written from a stored snapshot
IsWriterDraft(doc) ==
    \E q \in DOMAIN normalized :
        /\ normalized[q] # None
        /\ doc = buildCandidate(Val(normalized[q]), production)

\* C28 (as stated): the content a review run promotes to production is
\* exactly the content this run loaded and audited, for every interleaving
\* of one review run with one writer run on the same dataset
C28_PromotesAudited ==
    [][Promotes => production' = Val(review.candidate)]_vars

\* C28 (amended): the content a review run promotes is the content the
\* candidate file holds at the rename; it is the content the run loaded and
\* audited unless the writer run has overwritten the candidate file after
\* the load, and then the writer's unaudited draft is promoted
C28_PromotesFileAtRename ==
    [][Promotes =>
          /\ production' = Val(candidate)
          /\ (production' # Val(review.candidate))
                => /\ writer.exit = "0"
                   /\ IsWriterDraft(Val(candidate))]_vars

\* a review run promoted the candidate it loaded while the writer run had
\* not written yet
C28_Witness ==
    /\ review.exit = "0"
    /\ review.pc = "idle"
    /\ writer.exit = "none"
    /\ candidate = None
    /\ reviewFile # None
    /\ Val(reviewFile).final_status = "PASS"
    /\ production # InitialProduction(DefaultProductionMetrics)

\* a review run promoted the draft of the period before the one it audited:
\* the writer run overwrote the candidate file between the load and the rename
C28_WitnessOverwritten ==
    /\ review.exit = "0"
    /\ review.pc = "idle"
    /\ writer.exit = "0"
    /\ candidate = None
    /\ production.release = Some([reference_period |-> monthsAgo(FirstNew, 1)])
    /\ Val(reviewFile).final_status = "PASS"

(***************************************************************************)
(* C29: the writer's drafts pass the deterministic checks of the gate      *)
(***************************************************************************)
BannedCharacters == {"EMDASH", ";", "!"}

\* the eight audited fields of a document hold none of the banned characters
NoBannedCharacter(doc) ==
    \A field \in AuditedFields :
        \A i \in DOMAIN FieldText(doc, field) :
            FieldText(doc, field)[i] \notin BannedCharacters

\* no field of the editorial holds a forbidden phrase, in any case of letters
NoForbiddenPhrase(doc) ==
    \A field \in EditorialFields, j \in DOMAIN forbidden :
        ~Includes(toLowerCase(FieldText(doc, field)), toLowerCase(forbidden[j]))

C29_WitnessInflation ==
    /\ DATASET = "inflation"
    /\ writer.exit = "0"
    /\ review.exit = "0"
    /\ candidate = None
    /\ reviewFile # None
    /\ Val(reviewFile).ai_audit.flag = "NO_AI_AUDIT"
    /\ production.headline.context = REQUIRED_SIGNAL_SENTENCE
    /\ production.editorial.what_changed # FALLBACK_TEXT

(***************************************************************************)
(* C30: the prior release of a candidate                                   *)
(***************************************************************************)
\* the prior release of a document describes an earlier period than the
\* document, and for every key the snapshot has a delta for, the value of
\* the document is the prior value plus the delta, rounded to the display
\* precision
PriorReleaseAgrees(cand, norm) ==
    LET prior == Val(cand.comparisons).prior_release
    IN  /\ prior.reference_period < Val(cand.release).reference_period
        /\ \A key \in DOMAIN norm.deltas :
              (norm.deltas[key] # None) =>
                  /\ prior.keys[key] # None
                  /\ Val(prior.keys[key]).value # None
                  /\ Val(cand.metrics)[key] # None
                  /\ Val(Val(cand.metrics)[key]).value
                        = Some(RoundTo(Val(Val(prior.keys[key]).value)
                                          + Val(prior.keys[key]).delta,
                                       Val(norm.deltas[key]).precision))

\* C30: in every candidate, after any sequence of fetch, writer and review
\* runs, comparisons.prior_release describes a period strictly earlier than
\* the candidate's reference period, and for every key with an emitted delta
\* the metric value is the prior value plus the delta, a writer run repeated
\* for a period whose candidate was already promoted included
C30_PriorReleaseIsEarlier ==
    (candidate # None) => PriorReleaseAgrees(Val(candidate), SnapshotOf(Val(candidate)))

====
